---- MODULE Spec2Model ----
(***************************************************************************)
(* Model of the rp command line wrapper: the alias Store (pods.json), the  *)
(* scheduled-task list (schedule.json), the managed stanzas of the SSH     *)
(* client configuration and the scheduler tick that executes due tasks.    *)
(*                                                                         *)
(* Spec     : every command runs to completion before the next one starts. *)
(* SpecStore: the commands that rewrite pods.json, from any file content,  *)
(*            with the save in its two steps and a crash between them.     *)
(* SpecSsh  : the three rewrites of the SSH config, from any file content. *)
(* SpecConc : the tick is a process of its own; commands interleave with   *)
(*            it between its load of the task list and each of its saves.  *)
(* SpecPods : the pod commands (create, start, stop, destroy, clean,       *)
(*            untrack, list) against a provider whose state and failures   *)
(*            are inputs of each command.                                  *)
(* SpecParse: parse_duration_string on every short text.                   *)
(* SpecSave : Scheduler._save_tasks in its steps, run by two processes.    *)
(* SpecSshWrite: the rewrites of the SSH config with the write in its      *)
(*            steps and a crash of the process at any of them.             *)
(***************************************************************************)
EXTENDS Integers, Sequences, FiniteSets, TLC

\* ------------------------------------------------------------------ bounds
MaxId == 2
MaxClock == 2

Aliases == {"x", "y"}
Pods == {"p1", "p2"}
Offsets == {0 - 1, 0, 1}
Procs == {1, 2}

TaskIds == 1..MaxId
NoError == "none"
ErrAlias == "alias_not_found"
ErrProvider == "provider_error"
ErrSsh == "ssh_error"

VARIABLES
    clock,      \* wall clock, epoch seconds
    tasks,      \* schedule.json: the persisted task list
    store,      \* pods.json: [aliases, pod_metadata]
    ssh,        \* ~/.ssh/config as its sequence of lines
    calls,      \* provider stop_pod invocations, per task on whose behalf
    nextId,     \* stands for uuid4: the next identifier never seen before
    pc,         \* SpecConc: position of each tick process
    ptasks,     \* SpecConc: Scheduler._tasks of each tick process
    pdue,       \* SpecConc: due tasks the process has still to execute
    cancelled,  \* history: tasks whose cancel has returned CANCELLED
    stale,      \* history: per process, tasks cancelled since it loaded
    lost,       \* history: cancels overwritten by the save of a stale list
    postCancel, \* history: tasks stopped at the provider after their cancel
    late,       \* history: ... by a tick that loaded after the cancel
    podsFile,   \* SpecStore: pods.json as it is on disk
    saving,     \* SpecStore: the _save_config in progress, if any
    fs,         \* SpecSave: schedule.json, its .tmp file and the savers
    sshWrite,   \* SpecSshWrite: the _write_ssh_config_lines in progress
    duration    \* SpecParse: a duration text and what parsing made of it

vars == <<clock, tasks, store, ssh, calls, nextId,
          pc, ptasks, pdue, cancelled, stale, lost, postCancel, late,
          podsFile, saving, fs, sshWrite, duration>>
storeVars == <<podsFile, saving>>
ioVars == <<fs, sshWrite, duration>>
procVars == <<pc, ptasks, pdue>>
histVars == <<cancelled, stale, lost, postCancel, late>>

\* ------------------------------------------------------------ dictionaries
EmptyDict == [k \in {} |-> "none"]
Put(d, k, v) == [j \in (DOMAIN d) \cup {k} |-> IF j = k THEN v ELSE d[j]]
Del(d, k) == [j \in (DOMAIN d) \ {k} |-> d[j]]

\* ------------------------------------------------------------------- Store
\* AppConfig(): the empty modern document.  extra holds the top-level keys of
\* the document that the program does not know.
EmptyConfig ==
    [aliases |-> EmptyDict, pod_metadata |-> EmptyDict, extra |-> EmptyDict]

\* AppConfig.get_all_aliases: legacy flat map combined with per-alias metadata
get_all_aliases(cfg) ==
    [a \in (DOMAIN cfg.aliases) \cup (DOMAIN cfg.pod_metadata) |->
        IF a \in DOMAIN cfg.pod_metadata
        THEN cfg.pod_metadata[a].pod_id
        ELSE cfg.aliases[a]]

\* AppConfig.add_alias: false when the name exists and force is not set;
\* otherwise the name is bound in the per-alias metadata (keeping its config)
\* and leaves the legacy flat map
config_add_alias(cfg, alias, pod_id, force) ==
    IF alias \in DOMAIN get_all_aliases(cfg) /\ ~force
    THEN [ok |-> FALSE, cfg |-> cfg]
    ELSE [ok |-> TRUE,
          cfg |-> [aliases |-> Del(cfg.aliases, alias),
                   pod_metadata |->
                       Put(cfg.pod_metadata, alias,
                           [pod_id |-> pod_id,
                            path |-> IF alias \in DOMAIN cfg.pod_metadata
                                     THEN cfg.pod_metadata[alias].path
                                     ELSE "none"]),
                   extra |-> cfg.extra]]

\* AppConfig.remove_alias: the removed pod id, or none
config_remove_alias(cfg, alias) ==
    IF alias \in DOMAIN get_all_aliases(cfg)
    THEN [pod_id |-> get_all_aliases(cfg)[alias],
          cfg |-> [aliases |-> Del(cfg.aliases, alias),
                   pod_metadata |-> Del(cfg.pod_metadata, alias),
                   extra |-> cfg.extra]]
    ELSE [pod_id |-> "none", cfg |-> cfg]

\* PodManager.add_alias: raises AliasError when AppConfig.add_alias refuses,
\* saves the configuration otherwise.  disk is the content of pods.json.
add_alias_nosave(disk, alias, pod_id, force) ==
    LET r == config_add_alias(disk, alias, pod_id, force)
    IN  IF ~r.ok THEN [raised |-> TRUE, mem |-> r.cfg, disk |-> disk]
        ELSE [raised |-> FALSE, mem |-> r.cfg, disk |-> disk]

add_alias_forced(disk, alias, pod_id, force) ==
    LET r == config_add_alias(disk, alias, pod_id, TRUE)
    IN  [raised |-> FALSE, mem |-> r.cfg, disk |-> r.cfg]

add_alias(disk, alias, pod_id, force) ==
    LET r == config_add_alias(disk, alias, pod_id, force)
    IN  IF ~r.ok THEN [raised |-> TRUE, mem |-> r.cfg, disk |-> disk]
        ELSE [raised |-> FALSE, mem |-> r.cfg, disk |-> r.cfg]

\* PodManager.remove_alias: raises AliasError for an unknown alias unless
\* missing_ok, saves the configuration when an alias was removed
remove_alias(disk, alias, missing_ok) ==
    LET r == config_remove_alias(disk, alias)
    IN  IF r.pod_id = "none"
        THEN [raised |-> ~missing_ok, ret |-> "", mem |-> r.cfg, disk |-> disk]
        ELSE [raised |-> FALSE, ret |-> r.pod_id, mem |-> r.cfg,
              disk |-> r.cfg]

\* AppConfig.set_pod_config_value: false for an unknown alias; otherwise the
\* alias is held in the per-alias metadata (moved there from the flat map
\* with its pod id) and its path is set
config_set_pod_config_value(cfg, alias, value) ==
    IF alias \notin DOMAIN get_all_aliases(cfg)
    THEN [ok |-> FALSE, cfg |-> cfg]
    ELSE [ok |-> TRUE,
          cfg |-> [aliases |-> Del(cfg.aliases, alias),
                   pod_metadata |->
                       Put(cfg.pod_metadata, alias,
                           [pod_id |-> get_all_aliases(cfg)[alias],
                            path |-> value]),
                   extra |-> cfg.extra]]

\* PodManager.set_pod_config: raises AliasError for an unknown alias, saves
\* the configuration otherwise
set_pod_config_nosave(disk, alias, value) ==
    LET r == config_set_pod_config_value(disk, alias, value)
    IN  [raised |-> ~r.ok, mem |-> r.cfg, disk |-> disk]

set_pod_config(disk, alias, value) ==
    LET r == config_set_pod_config_value(disk, alias, value)
    IN  IF ~r.ok THEN [raised |-> TRUE, mem |-> r.cfg, disk |-> disk]
        ELSE [raised |-> FALSE, mem |-> r.cfg, disk |-> r.cfg]

\* str.format of an alias template "<pre>{i}<suf>"
Format(alias_template, i) ==
    alias_template.pre \o ToString(i) \o alias_template.suf

\* AppConfig.find_next_alias_index: the lowest index from 1 whose name is free
find_next_alias_index(cfg, alias_template) ==
    CHOOSE n \in 1..(Cardinality(DOMAIN get_all_aliases(cfg)) + 1) :
        /\ Format(alias_template, n) \notin DOMAIN get_all_aliases(cfg)
        /\ \A k \in 1..(n - 1) :
               Format(alias_template, k) \in DOMAIN get_all_aliases(cfg)

\* PodManager.create_pod_from_template, the alias of the request it builds:
\* the override when one is given, the template's next free name otherwise
create_pod_from_template_first(cfg, alias_template, alias_override) ==
    IF alias_override # "" THEN alias_override
    ELSE Format(alias_template, 1)

create_pod_from_template(cfg, alias_template, alias_override) ==
    IF alias_override # "" THEN alias_override
    ELSE Format(alias_template, find_next_alias_index(cfg, alias_template))

\* PodManager.create_pod: refuses a taken alias unless force, creates nothing
\* on a dry run, otherwise binds the alias to the id the provider returned
\* and saves
create_pod(disk, alias, pod_id, force, dry_run) ==
    IF alias \in DOMAIN get_all_aliases(disk) /\ ~force
    THEN [raised |-> TRUE, mem |-> disk, disk |-> disk]
    ELSE IF dry_run
    THEN [raised |-> FALSE, mem |-> disk, disk |-> disk]
    ELSE [raised |-> FALSE,
          mem |-> config_add_alias(disk, alias, pod_id, force).cfg,
          disk |-> config_add_alias(disk, alias, pod_id, force).cfg]

\* ---------------------------------------------------------------- pods.json
\* The file on disk.  kind says whether it exists, parses as JSON and is a
\* JSON object; for an object, has are the keys of AppConfig's fields it
\* carries, bad those of them whose value has the wrong type, aliases and
\* pod_metadata the well-typed values of these two keys, and extra every
\* other top-level key with its value.  A file written by an early version is
\* an object whose top-level keys are the alias names, all of them in extra.
ModernKeys == {"aliases", "pod_templates", "scheduled_tasks"}
FieldKeys == ModernKeys \cup {"pod_metadata"}

NoFile(kind) ==
    [kind |-> kind, has |-> {}, bad |-> {}, aliases |-> EmptyDict,
     pod_metadata |-> EmptyDict, extra |-> EmptyDict]

\* AppConfig.model_validate: pydantic rejects a field of the wrong type with
\* a ValidationError; keys that are no field stay with the document
model_validate(data) ==
    IF data.bad # {}
    THEN [raised |-> TRUE, cfg |-> EmptyConfig]
    ELSE [raised |-> FALSE,
          cfg |-> [aliases |-> data.aliases,
                   pod_metadata |-> data.pod_metadata,
                   extra |-> data.extra]]

\* what str(v) gives for a top-level value that is no string
Repr == "repr"

\* PodManager._load_config
_load_config(f) ==
    IF f.kind \in {"missing", "invalid"}
    THEN [raised |-> FALSE, cfg |-> EmptyConfig]
    ELSE IF f.kind # "object"
    THEN [raised |-> FALSE, cfg |-> EmptyConfig]
    ELSE IF f.has \cap ModernKeys # {}
    THEN model_validate(f)
    ELSE [raised |-> FALSE,
          cfg |-> [aliases |->
                       [k \in (DOMAIN f.extra) \cup f.has |->
                           IF k \in DOMAIN f.extra THEN f.extra[k] ELSE Repr],
                   pod_metadata |-> EmptyDict,
                   extra |-> EmptyDict]]

\* AppConfig.model_dump_json: the document _save_config writes, every field
\* of AppConfig present
model_dump_json(cfg) ==
    [kind |-> "object", has |-> FieldKeys, bad |-> {},
     aliases |-> cfg.aliases, pod_metadata |-> cfg.pod_metadata,
     extra |-> cfg.extra]

\* PodManager._save_config, step by step: open("w") truncates pods.json, the
\* writes and the close put the document there
save_open(f) == NoFile("invalid")
save_write(cfg) == model_dump_json(cfg)

\* --------------------------------------------------------------- datetimes
\* An aware datetime is a wall-clock reading together with the UTC offset of
\* its zone; the instant it denotes is wall - off.
\* datetime.astimezone(): the same instant read in the local zone
astimezone_keep_wall(dt, loc) == [wall |-> dt.wall, off |-> loc]

astimezone(dt, loc) == [wall |-> (dt.wall - dt.off) + loc, off |-> loc]

\* datetime.timestamp(): epoch seconds of an aware datetime
timestamp(dt) == dt.wall - dt.off

\* --------------------------------------------------------------- Scheduler
\* TaskStatus: the statuses other than PENDING
Terminal == {"completed", "cancelled", "failed"}

\* schedule.json on disk: kind as for pods.json ("list" for a JSON array),
\* items the array, bad whether an item is no valid ScheduleTask
TaskFiles ==
    { [kind |-> k, items |-> <<>>, bad |-> FALSE] :
          k \in {"missing", "invalid", "scalar", "list"} }
    \cup { [kind |-> "list",
            items |-> <<[id |-> 1, action |-> "stop", alias |-> "x",
                         when_epoch |-> 1, status |-> "pending",
                         last_error |-> "none"]>>,
            bad |-> b] : b \in BOOLEAN }

\* Scheduler._load_tasks: FileNotFoundError, JSONDecodeError and ValueError
\* (pydantic's ValidationError is one) give the empty list
_load_tasks(f) ==
    IF f.kind = "list" /\ ~f.bad
    THEN [raised |-> FALSE, tasks |-> f.items]
    ELSE [raised |-> FALSE, tasks |-> <<>>]

\* ScheduleTask.is_due
is_due_strict(t, now_epoch) == t.status = "pending" /\ t.when_epoch < now_epoch

is_due(t, now_epoch) == t.status = "pending" /\ t.when_epoch <= now_epoch

\* Scheduler.get_due_tasks
get_due_tasks_any_status(ts, current_epoch) ==
    SelectSeq(ts, LAMBDA t : t.when_epoch <= current_epoch)

get_due_tasks(ts, current_epoch) ==
    SelectSeq(ts, LAMBDA t : is_due(t, current_epoch))

\* Scheduler.get_task: position of the first task with this id, 0 if none
get_task(ts, task_id) ==
    IF \E i \in 1..Len(ts) : ts[i].id = task_id
    THEN CHOOSE i \in 1..Len(ts) :
             /\ ts[i].id = task_id
             /\ \A j \in 1..(i - 1) : ts[j].id # task_id
    ELSE 0

\* Scheduler.schedule_stop: mem is Scheduler.tasks, the result's disk is what
\* _save_tasks wrote.  created_at, a timestamp that is shown to the user and
\* read by no operation, is not part of the task record here.
schedule_stop(mem, uuid, alias, when, loc) ==
    LET task == [id |-> uuid, action |-> "stop", alias |-> alias,
                 when_epoch |-> timestamp(astimezone(when, loc)),
                 status |-> "pending",
                 last_error |-> NoError]
    IN  [ret |-> task, mem |-> Append(mem, task), disk |-> Append(mem, task)]

\* Scheduler.cancel_task: raises for an unknown id; returns a COMPLETED or
\* CANCELLED task as it is; otherwise sets CANCELLED and saves
cancel_task_nosave(mem, disk, task_id) ==
    LET i == get_task(mem, task_id)
    IN  IF i = 0 THEN [raised |-> TRUE, mem |-> mem, disk |-> disk]
        ELSE IF mem[i].status \in {"completed", "cancelled"}
        THEN [raised |-> FALSE, ret |-> mem[i], mem |-> mem, disk |-> disk]
        ELSE LET m == [mem EXCEPT ![i].status = "cancelled"]
             IN  [raised |-> FALSE, ret |-> m[i], mem |-> m, disk |-> disk]

cancel_task(mem, disk, task_id) ==
    LET i == get_task(mem, task_id)
    IN  IF i = 0 THEN [raised |-> TRUE, mem |-> mem, disk |-> disk]
        ELSE IF mem[i].status \in {"completed", "cancelled"}
        THEN [raised |-> FALSE, ret |-> mem[i], mem |-> mem, disk |-> disk]
        ELSE LET m == [mem EXCEPT ![i].status = "cancelled"]
             IN  [raised |-> FALSE, ret |-> m[i], mem |-> m, disk |-> m]

\* Scheduler.clear_completed_tasks
clear_completed_tasks(mem, disk) ==
    LET kept == SelectSeq(mem, LAMBDA t : t.status # "completed")
        removed == Len(mem) - Len(kept)
    IN  [ret |-> removed, mem |-> kept,
         disk |-> IF removed > 0 THEN kept ELSE disk]

\* Scheduler.mark_task_completed
mark_task_completed_keep_pending(mem, task_id) == [mem |-> mem, disk |-> mem]

mark_task_completed(mem, task_id) ==
    LET m == [mem EXCEPT ![get_task(mem, task_id)].status = "completed"]
    IN  [mem |-> m, disk |-> m]

\* Scheduler.mark_task_failed
mark_task_failed_no_error(mem, task_id, error_message) ==
    LET m == [mem EXCEPT ![get_task(mem, task_id)].status = "failed"]
    IN  [mem |-> m, disk |-> m]

mark_task_failed(mem, task_id, error_message) ==
    LET m == [mem EXCEPT ![get_task(mem, task_id)].status = "failed",
                         ![get_task(mem, task_id)].last_error = error_message]
    IN  [mem |-> m, disk |-> m]

\* ---------------------------------------------------------------- durations
\* A text is the sequence of its characters.
Digits == {"0", "1"}
Units == {"s", "M"}
Spaces == {" "}

\* int() of a run of digits
RECURSIVE IntOf(_)
IntOf(ds) ==
    IF ds = <<>> THEN 0
    ELSE 10 * IntOf(SubSeq(ds, 1, Len(ds) - 1))
         + (IF ds[Len(ds)] = "1" THEN 1 ELSE 0)

\* multipliers[unit.lower()]
Multiplier(u) == IF u \in {"s", "S"} THEN 1 ELSE 60

\* the first index from i on whose character is not in S, Len(t) + 1 if none
SkipWhile(t, i, S) ==
    IF \E j \in i..Len(t) : t[j] \notin S
    THEN CHOOSE j \in i..Len(t) :
             t[j] \notin S /\ \A k \in i..(j - 1) : t[k] \in S
    ELSE Len(t) + 1

\* str.strip()
Strip(t) ==
    LET a == SkipWhile(t, 1, Spaces)
        b == IF a > Len(t) THEN a - 1
             ELSE CHOOSE j \in a..Len(t) :
                      t[j] \notin Spaces /\ \A k \in (j + 1)..Len(t) :
                                                t[k] \in Spaces
    IN  SubSeq(t, a, b)

\* the sum over duration_re.finditer(t) from index i on: a match of
\* (\d+)\s*([dhms]) starts at a digit, takes the whole run of digits, any
\* spaces and one unit letter; where there is no match the scan moves on by
\* one character
RECURSIVE SumMatches(_, _)
SumMatches(t, i) ==
    IF i > Len(t) THEN 0
    ELSE IF t[i] \in Digits
    THEN LET j == SkipWhile(t, i, Digits)
             k == SkipWhile(t, j, Spaces)
         IN  IF k <= Len(t) /\ t[k] \in Units
             THEN IntOf(SubSeq(t, i, j - 1)) * Multiplier(t[k])
                  + SumMatches(t, k + 1)
             ELSE SumMatches(t, i + 1)
    ELSE SumMatches(t, i + 1)

\* Scheduler.parse_duration_string
parse_duration_string(duration_str) ==
    IF duration_str = <<>> \/ Strip(duration_str) = <<>>
    THEN [raised |-> TRUE, ret |-> 0]
    ELSE LET total == SumMatches(Strip(duration_str), 1)
         IN  IF total <= 0 THEN [raised |-> TRUE, ret |-> 0]
             ELSE [raised |-> FALSE, ret |-> total]

\* -------------------------------------------------------------- SSH config
\* The file is the sequence of its lines (_load_ssh_config_lines); a line is
\* the sequence of its whitespace-separated tokens, the marker prefix
\* "# rp:managed" being one token, and a blank line the empty sequence.  The
\* updated= timestamp of the marker is left out.
MARKER_PREFIX == "# rp:managed"

_build_marker(alias, pod_id) == <<MARKER_PREFIX, alias, pod_id>>

\* the line matches ^\s*Host\s+(.+)$
IsHostLine(line) == Len(line) >= 2 /\ line[1] = "Host"

\* lines[j].lstrip().startswith(MARKER_PREFIX)
IsMarkerLine(line) == Len(line) >= 1 /\ line[1] = MARKER_PREFIX

\* the n-th smallest member of a set of integers
Nth(S, n) == CHOOSE i \in S : Cardinality({j \in S : j < i}) = n - 1

\* _parse_ssh_blocks: one block per Host line, in file order; it runs from
\* its Host line (start) up to the next Host line or the end of the file
\* (end, exclusive).  Lines before the first Host line are in no block.
_parse_ssh_blocks(lines) ==
    LET H == {i \in 1..Len(lines) : IsHostLine(lines[i])}
        EndOf(i) == IF \E j \in H : j > i
                    THEN CHOOSE j \in H : j > i /\ \A k \in H : k > i => j <= k
                    ELSE Len(lines) + 1
    IN  [n \in 1..Cardinality(H) |->
           LET i == Nth(H, n)
           IN  [start |-> i,
                end |-> EndOf(i),
                hosts |-> {lines[i][k] : k \in 2..Len(lines[i])},
                managed |-> \E j \in (i + 1)..(EndOf(i) - 1) :
                                IsMarkerLine(lines[j])]]

\* del lines[start:end] for each block of to_delete
DeleteBlocks(lines, to_delete) ==
    LET K == {i \in 1..Len(lines) :
                 \A b \in to_delete : ~(b.start <= i /\ i < b.end)}
    IN  [n \in 1..Cardinality(K) |-> lines[Nth(K, n)]]

BlockSet(lines) ==
    {_parse_ssh_blocks(lines)[k] : k \in 1..Len(_parse_ssh_blocks(lines))}

\* a remove that does not look for the marker
remove_ssh_host_block_any(lines, alias) ==
    LET to_delete == {b \in BlockSet(lines) : alias \in b.hosts}
    IN  IF lines = <<>> \/ to_delete = {}
        THEN [ret |-> 0, lines |-> lines]
        ELSE [ret |-> Cardinality(to_delete),
              lines |-> DeleteBlocks(lines, to_delete)]

\* remove_ssh_host_block: deletes the managed blocks that list the alias and
\* returns how many it deleted; an empty file, or no such block, is no write
remove_ssh_host_block(lines, alias) ==
    LET to_delete == {b \in BlockSet(lines) : b.managed /\ alias \in b.hosts}
    IN  IF lines = <<>> \/ to_delete = {}
        THEN [ret |-> 0, lines |-> lines]
        ELSE [ret |-> Cardinality(to_delete),
              lines |-> DeleteBlocks(lines, to_delete)]

\* a prune that asks for every host of the block to be valid
prune_rp_managed_blocks_all(lines, valid_aliases) ==
    LET to_delete == {b \in BlockSet(lines) :
                         b.managed /\ ~(b.hosts \subseteq valid_aliases)}
    IN  IF lines = <<>> \/ to_delete = {}
        THEN [ret |-> 0, lines |-> lines]
        ELSE [ret |-> Cardinality(to_delete),
              lines |-> DeleteBlocks(lines, to_delete)]

\* prune_rp_managed_blocks: deletes the managed blocks none of whose hosts
\* is a valid alias
prune_rp_managed_blocks(lines, valid_aliases) ==
    LET to_delete == {b \in BlockSet(lines) :
                         b.managed /\ b.hosts \cap valid_aliases = {}}
    IN  IF lines = <<>> \/ to_delete = {}
        THEN [ret |-> 0, lines |-> lines]
        ELSE [ret |-> Cardinality(to_delete),
              lines |-> DeleteBlocks(lines, to_delete)]

\* a rendered block without the marker line
new_block_unmarked(host_alias, pod_id, hostname, port) ==
    << <<"Host", host_alias>>,
       <<"HostName", hostname>>,
       <<"User", "root">>,
       <<"Port", port>>,
       <<"IdentitiesOnly", "yes">>,
       <<"IdentityFile", "~/.ssh/runpod">> >>

\* the block update_ssh_config renders
new_block(host_alias, pod_id, hostname, port) ==
    << <<"Host", host_alias>>,
       _build_marker(host_alias, pod_id),
       <<"HostName", hostname>>,
       <<"User", "root">>,
       <<"Port", port>>,
       <<"IdentitiesOnly", "yes">>,
       <<"IdentityFile", "~/.ssh/runpod">> >>

\* an update that always appends
update_ssh_config_append(lines, host_alias, pod_id, hostname, port) ==
    LET blk == new_block(host_alias, pod_id, hostname, port)
    IN  IF lines # <<>> /\ lines[Len(lines)] # <<>>
        THEN lines \o << <<>> >> \o blk
        ELSE lines \o blk

\* update_ssh_config: the first block that lists the alias, managed or not,
\* is replaced by the rendered block; without one the block is appended,
\* after a blank line when the file does not end in one
update_ssh_config(lines, host_alias, pod_id, hostname, port) ==
    LET blocks == _parse_ssh_blocks(lines)
        hit == {k \in 1..Len(blocks) : host_alias \in blocks[k].hosts}
        blk == new_block(host_alias, pod_id, hostname, port)
    IN  IF hit = {}
        THEN IF lines # <<>> /\ lines[Len(lines)] # <<>>
             THEN lines \o << <<>> >> \o blk
             ELSE lines \o blk
        ELSE LET target_block == blocks[Nth(hit, 1)]
             IN  SubSeq(lines, 1, target_block.start - 1) \o blk
                 \o SubSeq(lines, target_block.end, Len(lines))

\* _write_ssh_config_lines, step by step: open("w") empties the file, then
\* writelines puts the lines there one after the other
write_open(file) == <<>>
write_line(file, lines) == Append(file, lines[Len(file) + 1])

\* -------------------------------------------------------------------- tick
\* What the environment does to one tick: api is whether the provider client
\* could be set up (get_pod_manager), stopErr the pods whose stop the provider
\* rejects, sshErr the aliases for which rewriting the SSH config raises.
Envs == [api : BOOLEAN, stopErr : SUBSET Pods, sshErr : SUBSET Aliases]

\* PodManager.stop_pod: get_pod_id, then the provider's stop_pod.  called is
\* the pod id handed to the provider, if the call was made.
stop_pod_first_binding(cfg, alias, env) ==
    LET first == IF alias = "x" THEN "p1" ELSE "p2"
    IN  IF alias \notin DOMAIN get_all_aliases(cfg)
        THEN [raised |-> ErrAlias, called |-> <<>>]
        ELSE IF first \in env.stopErr
        THEN [raised |-> ErrProvider, called |-> <<first>>]
        ELSE [raised |-> NoError, called |-> <<first>>]

stop_pod(cfg, alias, env) ==
    IF alias \notin DOMAIN get_all_aliases(cfg)
    THEN [raised |-> ErrAlias, called |-> <<>>]
    ELSE IF get_all_aliases(cfg)[alias] \in env.stopErr
    THEN [raised |-> ErrProvider, called |-> <<get_all_aliases(cfg)[alias]>>]
    ELSE [raised |-> NoError, called |-> <<get_all_aliases(cfg)[alias]>>]

\* The body of the loop of scheduler_tick_command for one due task.
\* s = [mem, disk, ssh, calls]: the process's task list, schedule.json, the
\* SSH config and the provider's record of stop calls.
ExecTask(s, task_id, cfg, env) ==
    LET alias == s.mem[get_task(s.mem, task_id)].alias
        st == stop_pod(cfg, alias, env)
        cl == [s.calls EXCEPT ![task_id] = @ \o st.called]
    IN  IF st.raised # NoError
        THEN LET m == mark_task_failed(s.mem, task_id, st.raised)
             IN  [mem |-> m.mem, disk |-> m.disk, ssh |-> s.ssh, calls |-> cl]
        ELSE IF alias \in env.sshErr
        THEN LET m == mark_task_failed(s.mem, task_id, ErrSsh)
             IN  [mem |-> m.mem, disk |-> m.disk, ssh |-> s.ssh, calls |-> cl]
        ELSE LET m == mark_task_completed(s.mem, task_id)
             IN  [mem |-> m.mem, disk |-> m.disk,
                  ssh |-> remove_ssh_host_block(s.ssh, alias).lines,
                  calls |-> cl]

\* The for loop of scheduler_tick_command over the due tasks
RECURSIVE RunDue(_, _, _, _)
RunDue(s, due, cfg, env) ==
    IF due = <<>> THEN s
    ELSE RunDue(ExecTask(s, Head(due), cfg, env), Tail(due), cfg, env)

\* the ids of a list of tasks, in order
Ids(ts) == [i \in 1..Len(ts) |-> ts[i].id]

\* scheduler_tick_command as a whole: load, select the due tasks, set up the
\* pod manager, execute; any exception outside the loop ends the tick silently
scheduler_tick_command_first_only(disk, cfg, sshv, callsv, now, env) ==
    LET s0 == [mem |-> disk, disk |-> disk, ssh |-> sshv, calls |-> callsv]
        due == get_due_tasks(disk, now)
    IN  IF due = <<>> \/ ~env.api THEN s0
        ELSE RunDue(s0, <<Head(Ids(due))>>, cfg, env)

scheduler_tick_command(disk, cfg, sshv, callsv, now, env) ==
    LET s0 == [mem |-> disk, disk |-> disk, ssh |-> sshv, calls |-> callsv]
        due == get_due_tasks(disk, now)
    IN  IF due = <<>> \/ ~env.api THEN s0
        ELSE RunDue(s0, Ids(due), cfg, env)

\* ------------------------------------------------- provider and pod manager
\* The provider is the environment of a command.  cloud gives, for each pod
\* id, what the provider holds: FREE (never created), RUNNING, EXITED or GONE
\* (terminated).  fail is the set of provider operations that fail during the
\* command; "nonet" says that the records returned carry no public SSH port,
\* "noop" that the provider's SDK rejects the start of a running pod and the
\* stop of a stopped one.
PodStates == {"FREE", "RUNNING", "EXITED", "GONE"}
Clouds == [Pods -> PodStates]
Ops == {"get", "gpu", "create", "wait", "start", "stop", "terminate", "nonet",
        "noop"}
DryRunPod == "dry-run-pod"

\* the pod exists at the provider
Exists(cloud, pod_id) ==
    pod_id \in DOMAIN cloud /\ cloud[pod_id] \in {"RUNNING", "EXITED"}

\* RunPodAPIClient.get_pod_status: RUNNING, STOPPED or INVALID; every error
\* of the query is folded to INVALID
get_pod_status(cloud, pod_id, fail) ==
    IF "get" \in fail \/ ~Exists(cloud, pod_id) THEN "INVALID"
    ELSE IF cloud[pod_id] = "RUNNING" THEN "RUNNING"
    ELSE "STOPPED"

\* RunPodAPIClient.extract_network_info of the record of a pod
extract_network_info(pod_id, fail) ==
    IF "nonet" \in fail THEN [ip |-> "", port |-> ""]
    ELSE [ip |-> IF pod_id = "p1" THEN "h1" ELSE "h2", port |-> "22"]

\* Pod.from_alias_and_id
from_alias_and_id(alias, pod_id, status) ==
    [alias |-> alias, id |-> pod_id, status |-> status,
     ip_address |-> "", ssh_port |-> ""]

\* Pod.from_runpod_response on the record the provider returns for a pod
from_runpod_response(alias, cloud, pod_id, fail) ==
    [alias |-> alias, id |-> pod_id,
     status |-> IF cloud[pod_id] = "RUNNING" THEN "RUNNING" ELSE "STOPPED",
     ip_address |-> IF cloud[pod_id] = "RUNNING"
                    THEN extract_network_info(pod_id, fail).ip ELSE "",
     ssh_port |-> IF cloud[pod_id] = "RUNNING"
                  THEN extract_network_info(pod_id, fail).port ELSE ""]

NoPod == from_alias_and_id("", "", "INVALID")

\* The state a command works on: s = [store, ssh, tasks, cloud, api], api
\* being the provider calls made so far, each as <<operation, pod id>>.
\* An operation returns [raised, ret, s].
Call(s, op, pod_id) == [s EXCEPT !.api = @ \cup {<<op, pod_id>>}]

\* the provider's state of an existing pod changes
SetCloud(s, pod_id, state) ==
    IF Exists(s.cloud, pod_id) THEN [s EXCEPT !.cloud[pod_id] = state] ELSE s

\* PodManager.get_pod: the provider's record as a view; a PodError of the
\* provider gives an INVALID view with the id of the Store
get_pod(s, alias, fail) ==
    IF alias \notin DOMAIN get_all_aliases(s.store)
    THEN [raised |-> TRUE, ret |-> NoPod, s |-> s]
    ELSE LET pod_id == get_all_aliases(s.store)[alias]
             s1 == Call(s, "get_pod", pod_id)
         IN  IF "get" \in fail \/ ~Exists(s.cloud, pod_id)
             THEN [raised |-> FALSE,
                   ret |-> from_alias_and_id(alias, pod_id, "INVALID"),
                   s |-> s1]
             ELSE [raised |-> FALSE,
                   ret |-> from_runpod_response(alias, s.cloud, pod_id, fail),
                   s |-> s1]

\* every alias name of the model, in the order of Python's string comparison
SortedNames == <<"t1", "t2", "x", "y">>

\* sorted(names)
Sorted(S) == SelectSeq(SortedNames, LAMBDA a : a \in S)

\* one view of list_pods: any exception of the fetch gives an INVALID view
ListView(s, alias, fail) ==
    LET pod_id == get_all_aliases(s.store)[alias]
    IN  IF "get" \in fail \/ ~Exists(s.cloud, pod_id)
        THEN from_alias_and_id(alias, pod_id, "INVALID")
        ELSE from_runpod_response(alias, s.cloud, pod_id, fail)

\* a list_pods that leaves out the pods it could not fetch
list_pods_valid_only(s, fail) ==
    LET names == Sorted({a \in DOMAIN get_all_aliases(s.store) :
                            ListView(s, a, fail).status # "INVALID"})
    IN  [raised |-> FALSE,
         ret |-> [k \in 1..Len(names) |-> ListView(s, names[k], fail)],
         s |-> [s EXCEPT !.api = @ \cup
                   {<<"get_pod", get_all_aliases(s.store)[a]>> :
                        a \in DOMAIN get_all_aliases(s.store)}]]

\* PodManager.list_pods: one view per alias, sorted by alias
list_pods(s, fail) ==
    LET names == Sorted(DOMAIN get_all_aliases(s.store))
    IN  [raised |-> FALSE,
         ret |-> [k \in 1..Len(names) |-> ListView(s, names[k], fail)],
         s |-> [s EXCEPT !.api = @ \cup
                   {<<"get_pod", get_all_aliases(s.store)[a]>> :
                        a \in DOMAIN get_all_aliases(s.store)}]]

\* PodManager.create_pod.  new_id is the id the provider gives the pod.
\* Nothing is written before the provider's create has returned; the alias
\* is saved before the wait for readiness.
PodManager_create_pod_save_first(s, alias, force, dry_run, new_id, fail) ==
    IF alias \in DOMAIN get_all_aliases(s.store) /\ ~force
    THEN [raised |-> TRUE, ret |-> NoPod, s |-> s]
    ELSE IF dry_run
    THEN [raised |-> FALSE,
          ret |-> from_alias_and_id(alias, DryRunPod, "STOPPED"), s |-> s]
    ELSE LET s0 == [s EXCEPT !.store =
                        create_pod(s.store, alias, new_id, force, FALSE).disk]
             s1 == Call(s0, "find_gpu_type_id", "")
         IN  IF "gpu" \in fail
             THEN [raised |-> TRUE, ret |-> NoPod, s |-> s1]
             ELSE LET s2 == Call(s1, "create_pod", new_id)
                  IN  IF "create" \in fail \/ s.cloud[new_id] # "FREE"
                      THEN [raised |-> TRUE, ret |-> NoPod, s |-> s2]
                      ELSE LET s3 == [s2 EXCEPT !.cloud[new_id] = "RUNNING"]
                               s4 == Call(s3, "wait_for_pod_ready", new_id)
                           IN  IF "wait" \in fail
                               THEN [raised |-> TRUE, ret |-> NoPod, s |-> s4]
                               ELSE [raised |-> FALSE,
                                     ret |-> from_runpod_response(
                                         alias, s4.cloud, new_id, fail),
                                     s |-> s4]

PodManager_create_pod(s, alias, force, dry_run, new_id, fail) ==
    IF alias \in DOMAIN get_all_aliases(s.store) /\ ~force
    THEN [raised |-> TRUE, ret |-> NoPod, s |-> s]
    ELSE IF dry_run
    THEN [raised |-> FALSE,
          ret |-> from_alias_and_id(alias, DryRunPod, "STOPPED"), s |-> s]
    ELSE LET s1 == Call(s, "find_gpu_type_id", "")
         IN  IF "gpu" \in fail
             THEN [raised |-> TRUE, ret |-> NoPod, s |-> s1]
             ELSE LET s2 == Call(s1, "create_pod", new_id)
                  IN  IF "create" \in fail \/ s.cloud[new_id] # "FREE"
                      THEN [raised |-> TRUE, ret |-> NoPod, s |-> s2]
                      ELSE LET s3 == [s2 EXCEPT
                                   !.cloud[new_id] = "RUNNING",
                                   !.store = create_pod(s.store, alias, new_id,
                                                        force, FALSE).disk]
                               s4 == Call(s3, "wait_for_pod_ready", new_id)
                           IN  IF "wait" \in fail
                               THEN [raised |-> TRUE, ret |-> NoPod, s |-> s4]
                               ELSE [raised |-> FALSE,
                                     ret |-> from_runpod_response(
                                         alias, s4.cloud, new_id, fail),
                                     s |-> s4]

\* PodManager.start_pod: get_pod_id, the provider's start, the wait
PodManager_start_pod(s, alias, fail) ==
    IF alias \notin DOMAIN get_all_aliases(s.store)
    THEN [raised |-> TRUE, ret |-> NoPod, s |-> s]
    ELSE LET pod_id == get_all_aliases(s.store)[alias]
             s1 == Call(s, "start_pod", pod_id)
         IN  IF "start" \in fail
             THEN [raised |-> TRUE, ret |-> NoPod, s |-> s1]
             ELSE LET s2 == SetCloud(s1, pod_id, "RUNNING")
                      s3 == Call(s2, "wait_for_pod_ready", pod_id)
                  IN  IF "wait" \in fail \/ ~Exists(s.cloud, pod_id)
                      THEN [raised |-> TRUE, ret |-> NoPod, s |-> s3]
                      ELSE [raised |-> FALSE,
                            ret |-> from_runpod_response(alias, s3.cloud,
                                                         pod_id, fail),
                            s |-> s3]

\* PodManager.stop_pod: get_pod_id, the provider's stop
PodManager_stop_pod(s, alias, fail) ==
    IF alias \notin DOMAIN get_all_aliases(s.store)
    THEN [raised |-> TRUE, ret |-> "", s |-> s]
    ELSE LET pod_id == get_all_aliases(s.store)[alias]
             s1 == Call(s, "stop_pod", pod_id)
         IN  IF "stop" \in fail
             THEN [raised |-> TRUE, ret |-> "", s |-> s1]
             ELSE [raised |-> FALSE, ret |-> pod_id,
                   s |-> SetCloud(s1, pod_id, "EXITED")]

\* PodManager.destroy_pod: stop when the status says RUNNING, whatever the
\* stop does; terminate; then remove the alias
destroy_pod_remove_first(s, alias, fail) ==
    IF alias \notin DOMAIN get_all_aliases(s.store)
    THEN [raised |-> TRUE, ret |-> "", s |-> s]
    ELSE LET pod_id == get_all_aliases(s.store)[alias]
             s0 == [s EXCEPT !.store = remove_alias(s.store, alias, TRUE).disk]
             s1 == Call(s0, "get_pod_status", pod_id)
             s2 == IF get_pod_status(s.cloud, pod_id, fail) = "RUNNING"
                   THEN IF "stop" \in fail THEN Call(s1, "stop_pod", pod_id)
                        ELSE SetCloud(Call(s1, "stop_pod", pod_id),
                                      pod_id, "EXITED")
                   ELSE s1
             s3 == Call(s2, "terminate_pod", pod_id)
         IN  IF "terminate" \in fail
             THEN [raised |-> TRUE, ret |-> "", s |-> s3]
             ELSE [raised |-> FALSE, ret |-> pod_id,
                   s |-> SetCloud(s3, pod_id, "GONE")]

destroy_pod(s, alias, fail) ==
    IF alias \notin DOMAIN get_all_aliases(s.store)
    THEN [raised |-> TRUE, ret |-> "", s |-> s]
    ELSE LET pod_id == get_all_aliases(s.store)[alias]
             s1 == Call(s, "get_pod_status", pod_id)
             s2 == IF get_pod_status(s.cloud, pod_id, fail) = "RUNNING"
                   THEN IF "stop" \in fail THEN Call(s1, "stop_pod", pod_id)
                        ELSE SetCloud(Call(s1, "stop_pod", pod_id),
                                      pod_id, "EXITED")
                   ELSE s1
             s3 == Call(s2, "terminate_pod", pod_id)
         IN  IF "terminate" \in fail
             THEN [raised |-> TRUE, ret |-> "", s |-> s3]
             ELSE [raised |-> FALSE, ret |-> pod_id,
                   s |-> [SetCloud(s3, pod_id, "GONE") EXCEPT !.store =
                              remove_alias(s.store, alias, TRUE).disk]]

\* remove_alias(alias, missing_ok=True) for each alias of a set
RECURSIVE RemoveAliases(_, _)
RemoveAliases(cfg, S) ==
    IF S = {} THEN cfg
    ELSE LET a == CHOOSE a \in S : TRUE
         IN  RemoveAliases(remove_alias(cfg, a, TRUE).disk, S \ {a})

\* a clean-up that removes the aliases of the pods that are not running
clean_invalid_aliases_not_running(s, fail) ==
    LET al == get_all_aliases(s.store)
        invalid_aliases ==
            {a \in DOMAIN al : get_pod_status(s.cloud, al[a], fail) # "RUNNING"}
    IN  [raised |-> FALSE, ret |-> Cardinality(invalid_aliases),
         s |-> [s EXCEPT !.store = RemoveAliases(s.store, invalid_aliases),
                         !.api = @ \cup {<<"get_pod_status", al[a]>> :
                                            a \in DOMAIN al}]]

\* PodManager.clean_invalid_aliases: removes the aliases whose status is
\* INVALID and returns their number
clean_invalid_aliases(s, fail) ==
    LET al == get_all_aliases(s.store)
        invalid_aliases ==
            {a \in DOMAIN al : get_pod_status(s.cloud, al[a], fail) = "INVALID"}
    IN  [raised |-> FALSE, ret |-> Cardinality(invalid_aliases),
         s |-> [s EXCEPT !.store = RemoveAliases(s.store, invalid_aliases),
                         !.api = @ \cup {<<"get_pod_status", al[a]>> :
                                            a \in DOMAIN al}]]

\* ---------------------------------------------------------------- commands
\* the three steps shared by clean_command and _auto_clean: invalid aliases,
\* prune of the SSH config with the aliases left, terminal tasks
CleanSteps(s, fail) ==
    LET s1 == clean_invalid_aliases(s, fail).s
        valid_aliases == DOMAIN get_all_aliases(s1.store)
    IN  [s1 EXCEPT !.ssh = prune_rp_managed_blocks(s1.ssh, valid_aliases).lines,
                   !.tasks = clear_completed_tasks(s1.tasks, s1.tasks).disk]

\* _auto_clean: the clean-up after a command; it never raises
_auto_clean(s, fail) == CleanSteps(s, fail)

\* clean_command
clean_command(s, fail) == [raised |-> FALSE, s |-> CleanSteps(s, fail)]

\* an SSH step that writes nothing
ConfigureSsh_skip(s, pod) == s

\* the SSH step of create_command and start_command: the stanza is written
\* when the view has an address and a port
ConfigureSsh(s, pod) ==
    IF pod.ip_address # "" /\ pod.ssh_port # ""
    THEN [s EXCEPT !.ssh = update_ssh_config(s.ssh, pod.alias, pod.id,
                                             pod.ip_address, pod.ssh_port)]
    ELSE s

NoTemplate == [pre |-> "", suf |-> ""]

\* create_command.  template is NoTemplate or the alias template to use; without
\* alias the name is the template's next free one.  A dry run returns before
\* the pod manager is asked to create anything.
create_command_no_dry_run(s, alias, template, force, dry_run, new_id, fail) ==
    LET final_alias ==
            IF template = NoTemplate THEN alias
            ELSE create_pod_from_template(s.store, template, alias)
    IN  IF template = NoTemplate /\ alias = ""
        THEN [raised |-> TRUE, s |-> s]
        ELSE LET r == PodManager_create_pod(s, final_alias, force, FALSE,
                                            new_id, fail)
             IN  IF r.raised THEN [raised |-> TRUE, s |-> r.s]
                 ELSE [raised |-> FALSE,
                       s |-> _auto_clean(ConfigureSsh(r.s, r.ret), fail)]

create_command(s, alias, template, force, dry_run, new_id, fail) ==
    LET final_alias ==
            IF template = NoTemplate THEN alias
            ELSE create_pod_from_template(s.store, template, alias)
    IN  IF template = NoTemplate /\ alias = ""
        THEN [raised |-> TRUE, s |-> s]
        ELSE IF dry_run
        THEN [raised |-> FALSE, s |-> s]
        ELSE LET r == PodManager_create_pod(s, final_alias, force, dry_run,
                                            new_id, fail)
             IN  IF r.raised THEN [raised |-> TRUE, s |-> r.s]
                 ELSE [raised |-> FALSE,
                       s |-> _auto_clean(ConfigureSsh(r.s, r.ret), fail)]

\* start_command
start_command(s, alias, fail) ==
    LET r == PodManager_start_pod(s, alias, fail)
    IN  IF r.raised THEN [raised |-> TRUE, s |-> r.s]
        ELSE [raised |-> FALSE,
              s |-> _auto_clean(ConfigureSsh(r.s, r.ret), fail)]

\* destroy_command, confirmed or forced
destroy_command(s, alias, fail) ==
    LET r == destroy_pod(s, alias, fail)
    IN  IF r.raised THEN [raised |-> TRUE, s |-> r.s]
        ELSE [raised |-> FALSE,
              s |-> _auto_clean(
                        [r.s EXCEPT !.ssh =
                             remove_ssh_host_block(r.s.ssh, alias).lines],
                        fail)]

\* untrack_command
untrack_command_cascade(s, alias, missing_ok) ==
    LET r == remove_alias(s.store, alias, missing_ok)
    IN  [raised |-> r.raised,
         s |-> [s EXCEPT !.store = r.disk,
                         !.ssh = remove_ssh_host_block(s.ssh, alias).lines,
                         !.tasks = SelectSeq(s.tasks,
                                             LAMBDA t : t.alias # alias)]]

untrack_command(s, alias, missing_ok) ==
    LET r == remove_alias(s.store, alias, missing_ok)
    IN  [raised |-> r.raised, s |-> [s EXCEPT !.store = r.disk]]

\* the --at and --in options of stop_command: given or not (None), the
\* empty text or not, and what parse_time_string / parse_duration_string
\* make of the text
NoOption == [given |-> FALSE, empty |-> FALSE, ok |-> FALSE, value |-> 0]

\* the truth value of an option in "if at and in_" and "if at or in_": None
\* and the empty text are false
Truthy(o) == o.given /\ ~o.empty

\* stop_command.  now is the clock, loc the offset of the local zone, uuid
\* the id a new task would get.
stop_command(s, alias, at, in_, dry_run, now, loc, uuid, fail) ==
    LET when_dt == IF Truthy(at) THEN [wall |-> at.value + loc, off |-> loc]
                   ELSE [wall |-> now + in_.value + loc, off |-> loc]
        st == PodManager_stop_pod(s, alias, fail)
    IN  IF alias \notin DOMAIN get_all_aliases(s.store)
        THEN [raised |-> TRUE, s |-> s]
        ELSE IF Truthy(at) /\ Truthy(in_)
        THEN [raised |-> TRUE, s |-> s]
        ELSE IF Truthy(at) \/ Truthy(in_)
        THEN IF (Truthy(at) /\ ~at.ok) \/ (Truthy(in_) /\ ~in_.ok)
             THEN [raised |-> TRUE, s |-> s]
             ELSE IF dry_run THEN [raised |-> FALSE, s |-> s]
             ELSE [raised |-> FALSE,
                   s |-> [s EXCEPT !.tasks =
                              schedule_stop(s.tasks, uuid, alias, when_dt,
                                            loc).disk]]
        ELSE IF dry_run THEN [raised |-> FALSE, s |-> s]
        ELSE IF st.raised THEN [raised |-> TRUE, s |-> st.s]
        ELSE [raised |-> FALSE,
              s |-> _auto_clean(
                        [st.s EXCEPT !.ssh =
                             remove_ssh_host_block(st.s.ssh, alias).lines],
                        fail)]

\* ------------------------------------------------- the commands of pods.py
\* stop_impl: when runpod.stop_pod raises, the pod is fetched, and a pod whose
\* desiredStatus is EXITED counts as stopped
stop_impl_no_fallback(s, host_alias, fail) ==
    IF host_alias \notin DOMAIN get_all_aliases(s.store)
    THEN [raised |-> TRUE, s |-> s]
    ELSE LET pod_id == get_all_aliases(s.store)[host_alias]
             s1 == Call(s, "stop_pod", pod_id)
             rejected == \/ "stop" \in fail
                         \/ ~Exists(s.cloud, pod_id)
                         \/ ("noop" \in fail /\ s.cloud[pod_id] = "EXITED")
         IN  IF ~rejected
             THEN [raised |-> FALSE,
                   s |-> [SetCloud(s1, pod_id, "EXITED") EXCEPT !.ssh =
                              remove_ssh_host_block(s.ssh, host_alias).lines]]
             ELSE [raised |-> TRUE, s |-> s1]

stop_impl(s, host_alias, fail) ==
    IF host_alias \notin DOMAIN get_all_aliases(s.store)
    THEN [raised |-> TRUE, s |-> s]
    ELSE LET pod_id == get_all_aliases(s.store)[host_alias]
             s1 == Call(s, "stop_pod", pod_id)
             rejected == \/ "stop" \in fail
                         \/ ~Exists(s.cloud, pod_id)
                         \/ ("noop" \in fail /\ s.cloud[pod_id] = "EXITED")
             s2 == Call(s1, "get_pod", pod_id)
         IN  IF ~rejected
             THEN [raised |-> FALSE,
                   s |-> [SetCloud(s1, pod_id, "EXITED") EXCEPT !.ssh =
                              remove_ssh_host_block(s.ssh, host_alias).lines]]
             ELSE IF "get" \in fail \/ ~Exists(s.cloud, pod_id)
             THEN [raised |-> TRUE, s |-> s2]
             ELSE IF s.cloud[pod_id] = "EXITED"
             THEN [raised |-> FALSE,
                   s |-> [s2 EXCEPT !.ssh =
                              remove_ssh_host_block(s.ssh, host_alias).lines]]
             ELSE [raised |-> TRUE, s |-> s2]

\* _resume_pod_and_wait: when runpod.resume_pod raises, the pod is fetched,
\* and a pod whose desiredStatus is RUNNING is waited for like a resumed one
_resume_pod_and_wait(s, host_alias, fail) ==
    IF host_alias \notin DOMAIN get_all_aliases(s.store)
    THEN [raised |-> TRUE, s |-> s]
    ELSE LET pod_id == get_all_aliases(s.store)[host_alias]
             s1 == Call(s, "resume_pod", pod_id)
             rejected == \/ "start" \in fail
                         \/ ~Exists(s.cloud, pod_id)
                         \/ ("noop" \in fail /\ s.cloud[pod_id] = "RUNNING")
             s2 == Call(s1, "get_pod", pod_id)
         IN  IF rejected /\ ("get" \in fail \/ ~Exists(s.cloud, pod_id))
             THEN [raised |-> TRUE, s |-> s2]
             ELSE IF rejected /\ s.cloud[pod_id] # "RUNNING"
             THEN [raised |-> TRUE, s |-> s2]
             ELSE IF "wait" \in fail \/ "get" \in fail
             THEN [raised |-> TRUE, s |-> s2]
             ELSE [raised |-> FALSE, s |-> SetCloud(s2, pod_id, "RUNNING")]

\* determine_pod_status: any exception of runpod.get_pod, and a record
\* without id, give "invalid"
determine_pod_status(cloud, pod_id, fail) ==
    IF "get" \in fail \/ ~Exists(cloud, pod_id) THEN "invalid"
    ELSE IF cloud[pod_id] = "RUNNING" THEN "running"
    ELSE "stopped"

\* clean of main.py: the aliases whose status is invalid leave pods.json;
\* when there was one, the managed stanzas of no alias left are pruned, and
\* so are those of aliases left whose status is invalid
clean(s, fail) ==
    LET pod_configs == get_all_aliases(s.store)
        to_remove == {a \in DOMAIN pod_configs :
                         determine_pod_status(s.cloud, pod_configs[a], fail)
                             = "invalid"}
        s1 == [s EXCEPT !.api = @ \cup {<<"get_pod", pod_configs[a]>> :
                                           a \in DOMAIN pod_configs}]
        left == RemoveAliases(s.store, to_remove)
        pruned == prune_rp_managed_blocks(s.ssh,
                                          DOMAIN get_all_aliases(left)).lines
    IN  IF DOMAIN pod_configs = {} THEN s
        ELSE IF to_remove = {} THEN s1
        ELSE [s1 EXCEPT !.store = left, !.ssh = pruned]

\* ------------------------------------------------------------ initial state
\* pods.json written by an early version (flat alias map), an SSH config with
\* the user's own stanza for x next to the managed ones, no task scheduled
InitStore ==
    [aliases |-> [a \in Aliases |-> IF a = "x" THEN "p1" ELSE "p2"],
     pod_metadata |-> EmptyDict,
     extra |-> EmptyDict]

\* the user's own stanza for x, then the managed stanzas of x and of y
InitSsh ==
    << <<"Host", "x">>, <<"User", "me">> >>
    \o new_block("x", "p1", "h1", "22")
    \o << <<"Host", "y", "z">>, _build_marker("y", "p2") >>

\* the files of the config directory are inodes; a document is written in
\* one piece, and every unit of it names its writer and its own length
MaxInodes == 4
MaxDoc == 2
Inodes == 1..MaxInodes
Document(p, n) == [i \in 1..n |-> <<p, n>>]

\* no save of schedule.json is in progress: the file holds the document it
\* had before, schedule.json.tmp does not exist
NoSave ==
    [inode |-> [i \in Inodes |-> IF i = 1 THEN Document(0, 1) ELSE <<>>],
     target |-> 1, tmp |-> 0,
     pc |-> [p \in Procs |-> "idle"],
     fd |-> [p \in Procs |-> 0],
     doc |-> [p \in Procs |-> 0],
     raised |-> {}]

\* no write of the SSH config is in progress
NoWrite == [pc |-> "idle", old |-> <<>>, new |-> <<>>]

\* no duration text has been given
NoDuration == [text |-> <<>>, done |-> FALSE, raised |-> FALSE, ret |-> 0]

\* no save of pods.json is in progress
Idle == [pc |-> "idle", old |-> NoFile("missing"), cfg |-> EmptyConfig]

\* aware datetimes that denote an instant of 1..MaxClock
Datetimes ==
    {[wall |-> e + o, off |-> o] : e \in 1..MaxClock, o \in Offsets}

Init ==
    /\ clock = 0
    /\ tasks = <<>>
    /\ store = InitStore
    /\ ssh = InitSsh
    /\ calls = [i \in TaskIds |-> <<>>]
    /\ nextId = 1
    /\ pc = [p \in Procs |-> "idle"]
    /\ ptasks = [p \in Procs |-> <<>>]
    /\ pdue = [p \in Procs |-> <<>>]
    /\ cancelled = {}
    /\ stale = [p \in Procs |-> {}]
    /\ lost = {}
    /\ postCancel = {}
    /\ late = {}
    /\ podsFile = model_dump_json(InitStore)
    /\ saving = Idle
    /\ fs = NoSave
    /\ sshWrite = NoWrite
    /\ duration = NoDuration

\* ----------------------------------------------------------------- commands
\* time passes
Advance ==
    /\ clock < MaxClock
    /\ clock' = clock + 1
    /\ UNCHANGED <<tasks, store, ssh, calls, nextId>>
    /\ UNCHANGED procVars
    /\ UNCHANGED storeVars
    /\ UNCHANGED ioVars
    /\ UNCHANGED histVars

\* stop_command with --at / --in: the alias must be known, then
\* Scheduler.schedule_stop
ScheduleStop(alias, when, loc) ==
    /\ nextId <= MaxId
    /\ alias \in DOMAIN get_all_aliases(store)
    /\ tasks' = schedule_stop(tasks, nextId, alias, when, loc).disk
    /\ nextId' = nextId + 1
    /\ UNCHANGED <<clock, store, ssh, calls>>
    /\ UNCHANGED procVars
    /\ UNCHANGED storeVars
    /\ UNCHANGED ioVars
    /\ UNCHANGED histVars

\* schedule_cancel_command
Cancel(task_id) ==
    /\ tasks' = cancel_task(tasks, tasks, task_id).disk
    /\ UNCHANGED <<clock, store, ssh, calls, nextId>>
    /\ UNCHANGED procVars
    /\ UNCHANGED storeVars
    /\ UNCHANGED ioVars
    /\ UNCHANGED histVars

\* housekeeping of the task list (clean_command, _auto_clean)
Clean ==
    /\ tasks' = clear_completed_tasks(tasks, tasks).disk
    /\ UNCHANGED <<clock, store, ssh, calls, nextId>>
    /\ UNCHANGED procVars
    /\ UNCHANGED storeVars
    /\ UNCHANGED ioVars
    /\ UNCHANGED histVars

\* scheduler_tick_command, run to completion
Tick(env) ==
    /\ LET r == scheduler_tick_command(tasks, store, ssh, calls, clock, env)
       IN  /\ tasks' = r.disk
           /\ ssh' = r.ssh
           /\ calls' = r.calls
    /\ UNCHANGED <<clock, store, nextId>>
    /\ UNCHANGED procVars
    /\ UNCHANGED storeVars
    /\ UNCHANGED ioVars
    /\ UNCHANGED histVars

\* track_command
Track(alias, pod_id, force) ==
    /\ store' = add_alias(store, alias, pod_id, force).disk
    /\ UNCHANGED <<clock, tasks, ssh, calls, nextId>>
    /\ UNCHANGED procVars
    /\ UNCHANGED storeVars
    /\ UNCHANGED ioVars
    /\ UNCHANGED histVars

\* untrack_command
Untrack(alias, missing_ok) ==
    /\ store' = remove_alias(store, alias, missing_ok).disk
    /\ UNCHANGED <<clock, tasks, ssh, calls, nextId>>
    /\ UNCHANGED procVars
    /\ UNCHANGED storeVars
    /\ UNCHANGED ioVars
    /\ UNCHANGED histVars

Next ==
    \/ Advance
    \/ \E a \in Aliases, w \in Datetimes, loc \in Offsets :
           ScheduleStop(a, w, loc)
    \/ \E i \in TaskIds : Cancel(i)
    \/ Clean
    \/ \E env \in Envs : Tick(env)
    \/ \E a \in Aliases, p \in Pods, f \in BOOLEAN : Track(a, p, f)
    \/ \E a \in Aliases, m \in BOOLEAN : Untrack(a, m)

Spec == Init /\ [][Next]_vars

\* ------------------------------------------------- the tick as a process
\* scheduler_tick_command up to the loop: the process loads schedule.json,
\* selects the due tasks and sets up the pod manager.  A tick with nothing
\* due, or whose set-up fails, ends here without any effect.
TickLoad(p) ==
    /\ pc[p] = "idle"
    /\ get_due_tasks(tasks, clock) # <<>>
    /\ pc' = [pc EXCEPT ![p] = "run"]
    /\ ptasks' = [ptasks EXCEPT ![p] = tasks]
    /\ pdue' = [pdue EXCEPT ![p] = Ids(get_due_tasks(tasks, clock))]
    /\ stale' = [stale EXCEPT ![p] = {}]
    /\ UNCHANGED <<clock, tasks, store, ssh, calls, nextId>>
    /\ UNCHANGED <<cancelled, lost, postCancel, late>>
    /\ UNCHANGED storeVars
    /\ UNCHANGED ioVars

\* one iteration of the loop: the action of the next due task, then the save
\* of the process's own list by mark_task_completed / mark_task_failed.  The
\* process ends after its last due task and its memory is gone.
TickExec(p, env) ==
    /\ pc[p] = "run"
    /\ LET id == Head(pdue[p])
           r == ExecTask([mem |-> ptasks[p], disk |-> tasks, ssh |-> ssh,
                          calls |-> calls], id, store, env)
           called == r.calls[id] # calls[id]
       IN  /\ tasks' = r.disk
           /\ ptasks' = [ptasks EXCEPT ![p] =
                           IF Tail(pdue[p]) = <<>> THEN <<>> ELSE r.mem]
           /\ ssh' = r.ssh
           /\ calls' = r.calls
           /\ postCancel' = IF called /\ id \in cancelled
                            THEN postCancel \cup {id} ELSE postCancel
           /\ late' = IF called /\ id \in cancelled /\ id \notin stale[p]
                         /\ id \notin lost
                      THEN late \cup {id} ELSE late
           /\ lost' = lost \cup stale[p]
    /\ pdue' = [pdue EXCEPT ![p] = Tail(pdue[p])]
    /\ pc' = [pc EXCEPT ![p] = IF Tail(pdue[p]) = <<>> THEN "idle" ELSE "run"]
    /\ stale' = [stale EXCEPT ![p] =
                     IF Tail(pdue[p]) = <<>> THEN {} ELSE stale[p]]
    /\ UNCHANGED <<clock, store, nextId, cancelled>>
    /\ UNCHANGED storeVars
    /\ UNCHANGED ioVars

\* schedule_cancel_command while tick processes may be running
CancelConc(task_id) ==
    /\ get_task(tasks, task_id) # 0
    /\ tasks[get_task(tasks, task_id)].status = "pending"
    /\ tasks' = cancel_task(tasks, tasks, task_id).disk
    /\ cancelled' = cancelled \cup {task_id}
    /\ stale' = [p \in Procs |->
                    IF pc[p] = "run" THEN stale[p] \cup {task_id}
                    ELSE stale[p]]
    /\ UNCHANGED <<clock, store, ssh, calls, nextId>>
    /\ UNCHANGED procVars
    /\ UNCHANGED storeVars
    /\ UNCHANGED ioVars
    /\ UNCHANGED <<lost, postCancel, late>>

NextConc ==
    \/ Advance
    \/ \E a \in Aliases, w \in Datetimes, loc \in Offsets :
           ScheduleStop(a, w, loc)
    \/ \E i \in TaskIds : CancelConc(i)
    \/ \E p \in Procs : TickLoad(p)
    \/ \E p \in Procs, env \in {e \in Envs : e.api} : TickExec(p, env)

SpecConc == Init /\ [][NextConc]_vars

\* --------------------------------------------- the commands on pods.json
StoreNames == {"x", "t1", "t2"}
Paths == {"/ws"}
Templates == {[pre |-> "t", suf |-> ""]}

\* contents pods.json may have when a command starts
AliasMaps ==
    { EmptyDict,
      [a \in {"x"} |-> "p1"],
      [a \in {"t1"} |-> "p2"],
      [a \in {"x", "t2"} |-> IF a = "x" THEN "p1" ELSE "p2"] }

MetaMaps ==
    { EmptyDict,
      [a \in {"x"} |-> [pod_id |-> "p2", path |-> "/ws"]],
      [a \in {"t1"} |-> [pod_id |-> "p1", path |-> "none"]] }

ExtraMaps == { EmptyDict, [k \in {"future"} |-> "v"] }

Files ==
    { NoFile("missing"), NoFile("invalid"), NoFile("scalar") }
    \cup { [NoFile("object") EXCEPT !.extra = m] : m \in AliasMaps }
    \cup { [kind |-> "object", has |-> h, bad |-> b,
            aliases |-> IF "aliases" \in h \ b THEN al ELSE EmptyDict,
            pod_metadata |-> IF "pod_metadata" \in h \ b THEN md
                             ELSE EmptyDict,
            extra |-> ex] :
           h \in (SUBSET {"aliases", "pod_metadata", "pod_templates"}) \ {{}},
           b \in {{}, {"aliases"}, {"pod_metadata"}},
           al \in AliasMaps, md \in MetaMaps, ex \in ExtraMaps }

InitFiles == {f \in Files : f.bad \subseteq f.has}

InitStoreSpec ==
    /\ clock = 0
    /\ tasks = <<>>
    /\ store = InitStore
    /\ ssh = InitSsh
    /\ calls = [i \in TaskIds |-> <<>>]
    /\ nextId = 1
    /\ pc = [p \in Procs |-> "idle"]
    /\ ptasks = [p \in Procs |-> <<>>]
    /\ pdue = [p \in Procs |-> <<>>]
    /\ cancelled = {}
    /\ stale = [p \in Procs |-> {}]
    /\ lost = {}
    /\ postCancel = {}
    /\ late = {}
    /\ podsFile \in InitFiles
    /\ saving = Idle
    /\ fs = NoSave
    /\ sshWrite = NoWrite
    /\ duration = NoDuration

\* a command has changed its configuration and enters _save_config: the file
\* is opened for writing
BeginSave(cfg) ==
    /\ podsFile' = save_open(podsFile)
    /\ saving' = [pc |-> "open", old |-> podsFile, cfg |-> cfg]
    /\ UNCHANGED <<clock, tasks, store, ssh, calls, nextId>>
    /\ UNCHANGED procVars
    /\ UNCHANGED histVars
    /\ UNCHANGED ioVars

\* track_command on the file as it is
TrackFile(alias, pod_id, force) ==
    /\ saving.pc = "idle"
    /\ ~_load_config(podsFile).raised
    /\ ~add_alias(_load_config(podsFile).cfg, alias, pod_id, force).raised
    /\ BeginSave(add_alias(_load_config(podsFile).cfg, alias, pod_id,
                           force).mem)

\* untrack_command on the file as it is
UntrackFile(alias) ==
    /\ saving.pc = "idle"
    /\ ~_load_config(podsFile).raised
    /\ remove_alias(_load_config(podsFile).cfg, alias, FALSE).ret # ""
    /\ BeginSave(remove_alias(_load_config(podsFile).cfg, alias, FALSE).mem)

\* config_command that sets the path of a pod
SetPodConfig(alias, value) ==
    /\ saving.pc = "idle"
    /\ ~_load_config(podsFile).raised
    /\ ~set_pod_config(_load_config(podsFile).cfg, alias, value).raised
    /\ BeginSave(set_pod_config(_load_config(podsFile).cfg, alias, value).mem)

\* create_command from a template, no alias given
CreateFromTemplate(alias_template, pod_id) ==
    /\ saving.pc = "idle"
    /\ ~_load_config(podsFile).raised
    /\ LET cfg == _load_config(podsFile).cfg
           alias == create_pod_from_template(cfg, alias_template, "")
       IN  /\ alias \in StoreNames
           /\ BeginSave(create_pod(cfg, alias, pod_id, FALSE, FALSE).mem)

\* _save_config writes the document and closes the file
SaveWrite ==
    /\ saving.pc = "open"
    /\ podsFile' = save_write(saving.cfg)
    /\ saving' = Idle
    /\ UNCHANGED <<clock, tasks, store, ssh, calls, nextId>>
    /\ UNCHANGED procVars
    /\ UNCHANGED histVars
    /\ UNCHANGED ioVars

\* the process dies inside _save_config, after the open and before the write
Crash ==
    /\ saving.pc = "open"
    /\ saving' = Idle
    /\ UNCHANGED <<clock, tasks, store, ssh, calls, nextId, podsFile>>
    /\ UNCHANGED procVars
    /\ UNCHANGED histVars
    /\ UNCHANGED ioVars

NextStore ==
    \/ \E a \in StoreNames, p \in Pods, f \in BOOLEAN : TrackFile(a, p, f)
    \/ \E a \in StoreNames : UntrackFile(a)
    \/ \E a \in StoreNames, v \in Paths : SetPodConfig(a, v)
    \/ \E t \in Templates, p \in Pods : CreateFromTemplate(t, p)
    \/ SaveWrite
    \/ Crash

SpecStore == InitStoreSpec /\ [][NextStore]_vars

\* ----------------------------------------------------------------- SpecSsh
\* The rewrites of ~/.ssh/config, from any content of the file: a preamble,
\* stanzas of the user and managed stanzas, with one or two Host tokens.
MaxLines == 4
Hostnames == {"h1", "h2"}
Ports == {"22", "2222"}
SshLines ==
    { <<"Host", "x">>, <<"Host", "y", "x">>, _build_marker("x", "p1"),
      <<"User", "me">>, <<>> }
SshFiles == UNION {[1..n -> SshLines] : n \in 0..MaxLines}

InitSshSpec ==
    /\ clock = 0
    /\ tasks = <<>>
    /\ store = InitStore
    /\ ssh \in SshFiles
    /\ calls = [i \in TaskIds |-> <<>>]
    /\ nextId = 1
    /\ pc = [p \in Procs |-> "idle"]
    /\ ptasks = [p \in Procs |-> <<>>]
    /\ pdue = [p \in Procs |-> <<>>]
    /\ cancelled = {}
    /\ stale = [p \in Procs |-> {}]
    /\ lost = {}
    /\ postCancel = {}
    /\ late = {}
    /\ podsFile = model_dump_json(InitStore)
    /\ saving = Idle
    /\ fs = NoSave
    /\ sshWrite = NoWrite
    /\ duration = NoDuration

\* rp create / rp start: the stanza of the alias is written
UpsertSsh(host_alias, pod_id, hostname, port) ==
    /\ ssh' = update_ssh_config(ssh, host_alias, pod_id, hostname, port)
    /\ UNCHANGED <<clock, tasks, store, calls, nextId>>
    /\ UNCHANGED procVars
    /\ UNCHANGED histVars
    /\ UNCHANGED storeVars
    /\ UNCHANGED ioVars

\* rp stop / rp destroy: the managed stanzas of the alias are removed
RemoveSsh(alias) ==
    /\ ssh' = remove_ssh_host_block(ssh, alias).lines
    /\ UNCHANGED <<clock, tasks, store, calls, nextId>>
    /\ UNCHANGED procVars
    /\ UNCHANGED histVars
    /\ UNCHANGED storeVars
    /\ UNCHANGED ioVars

\* rp clean: the managed stanzas of no valid alias are removed
PruneSsh(valid_aliases) ==
    /\ ssh' = prune_rp_managed_blocks(ssh, valid_aliases).lines
    /\ UNCHANGED <<clock, tasks, store, calls, nextId>>
    /\ UNCHANGED procVars
    /\ UNCHANGED histVars
    /\ UNCHANGED storeVars
    /\ UNCHANGED ioVars

NextSsh ==
    \/ \E a \in Aliases, p \in Pods, h \in Hostnames : UpsertSsh(a, p, h, "22")
    \/ \E a \in Aliases : RemoveSsh(a)
    \/ \E S \in SUBSET Aliases : PruneSsh(S)

SpecSsh == InitSshSpec /\ [][NextSsh]_vars

\* ---------------------------------------------------------------- SpecPods
\* The commands on pods, each run to completion on the Store, the SSH config
\* and the task list as they are, with the provider in any state and any of
\* its operations failing.
\* the state a command finds, with the provider as given
World(cloud) ==
    [store |-> store, ssh |-> ssh, tasks |-> tasks, cloud |-> cloud,
     api |-> {}]

\* a Store with x held in the per-alias metadata and y in the flat map
MixedStore ==
    [aliases |-> [a \in {"y"} |-> "p2"],
     pod_metadata |-> [a \in {"x"} |-> [pod_id |-> "p1", path |-> "/ws"]],
     extra |-> EmptyDict]

PodStores == {EmptyConfig, InitStore, MixedStore}

\* SSH configs: none, the user's stanza for x above the managed ones, and a
\* preamble with a stanza of the user for another host
PodSshFiles ==
    { <<>>,
      InitSsh,
      << <<"User", "me">>, <<"Host", "z">>, <<"Port", "22">> >> }

InOption == [given |-> TRUE, empty |-> FALSE, ok |-> TRUE, value |-> 1]
EmptyOption == [given |-> TRUE, empty |-> TRUE, ok |-> FALSE, value |-> 0]
Options == {NoOption, EmptyOption, InOption,
            [given |-> TRUE, empty |-> FALSE, ok |-> FALSE, value |-> 0]}

InitPodsSpec ==
    /\ clock = 0
    /\ tasks = <<>>
    /\ store \in PodStores
    /\ ssh \in PodSshFiles
    /\ calls = [i \in TaskIds |-> <<>>]
    /\ nextId = 1
    /\ pc = [p \in Procs |-> "idle"]
    /\ ptasks = [p \in Procs |-> <<>>]
    /\ pdue = [p \in Procs |-> <<>>]
    /\ cancelled = {}
    /\ stale = [p \in Procs |-> {}]
    /\ lost = {}
    /\ postCancel = {}
    /\ late = {}
    /\ podsFile = model_dump_json(InitStore)
    /\ saving = Idle
    /\ fs = NoSave
    /\ sshWrite = NoWrite
    /\ duration = NoDuration

\* the variables no command on pods touches
PodsFrame ==
    /\ UNCHANGED <<clock, calls>>
    /\ UNCHANGED procVars
    /\ UNCHANGED histVars
    /\ UNCHANGED storeVars
    /\ UNCHANGED ioVars

\* the Store, the SSH config and the task list are what the command left
Commit(r) ==
    /\ store' = r.s.store
    /\ ssh' = r.s.ssh
    /\ tasks' = r.s.tasks

CreateCmd(alias, template, force, dry_run, new_id, cloud, fail) ==
    /\ Commit(create_command(World(cloud), alias, template, force, dry_run,
                             new_id, fail))
    /\ UNCHANGED nextId
    /\ PodsFrame

StartCmd(alias, cloud, fail) ==
    /\ Commit(start_command(World(cloud), alias, fail))
    /\ UNCHANGED nextId
    /\ PodsFrame

StopCmd(alias, at, in_, dry_run, loc, cloud, fail) ==
    /\ nextId <= MaxId
    /\ Commit(stop_command(World(cloud), alias, at, in_, dry_run, clock, loc,
                           nextId, fail))
    /\ nextId' = IF Len(tasks') > Len(tasks) THEN nextId + 1 ELSE nextId
    /\ PodsFrame

DestroyCmd(alias, cloud, fail) ==
    /\ Commit(destroy_command(World(cloud), alias, fail))
    /\ UNCHANGED nextId
    /\ PodsFrame

CleanCmd(cloud, fail) ==
    /\ Commit(clean_command(World(cloud), fail))
    /\ UNCHANGED nextId
    /\ PodsFrame

UntrackCmd(alias, missing_ok) ==
    /\ Commit(untrack_command(World([p \in Pods |-> "FREE"]), alias,
                              missing_ok))
    /\ UNCHANGED nextId
    /\ PodsFrame

\* rp list: nothing is written
ListCmd(cloud, fail) ==
    /\ ~list_pods(World(cloud), fail).raised
    /\ UNCHANGED <<store, ssh, tasks, nextId>>
    /\ PodsFrame

\* the stop and start of pods.py
StopImpl(host_alias, cloud, fail) ==
    /\ Commit(stop_impl(World(cloud), host_alias, fail))
    /\ UNCHANGED nextId
    /\ PodsFrame

\* what the actions draw: three states of the provider and at most one
\* failing operation
ActClouds ==
    { [p \in Pods |-> IF p = "p1" THEN "RUNNING" ELSE "EXITED"],
      [p \in Pods |-> IF p = "p1" THEN "EXITED" ELSE "FREE"],
      [p \in Pods |-> IF p = "p1" THEN "FREE" ELSE "RUNNING"] }
OneOf(S) == {{}} \cup {{f} : f \in S}

NextPods ==
    \/ \E a \in Aliases, f \in BOOLEAN, d \in BOOLEAN, c \in ActClouds,
          fl \in OneOf({"gpu", "create", "wait", "nonet"}) :
           \E p \in {q \in Pods : c[q] = "FREE"} :
               CreateCmd(a, NoTemplate, f, d, p, c, fl)
    \/ \E a \in Aliases, c \in ActClouds,
          fl \in OneOf({"start", "wait", "nonet"}) : StartCmd(a, c, fl)
    \/ \E a \in Aliases, at \in Options, in_ \in {NoOption, InOption},
          d \in BOOLEAN, c \in ActClouds, fl \in OneOf({"stop"}) :
           StopCmd(a, at, in_, d, 0, c, fl)
    \/ \E a \in Aliases, c \in ActClouds,
          fl \in OneOf({"stop", "terminate", "get"}) : DestroyCmd(a, c, fl)
    \/ \E c \in ActClouds, fl \in OneOf({"get"}) : CleanCmd(c, fl)
    \/ \E a \in Aliases, m \in BOOLEAN : UntrackCmd(a, m)
    \/ \E c \in ActClouds, fl \in OneOf({"get"}) : ListCmd(c, fl)
    \/ \E a \in Aliases, c \in ActClouds, fl \in OneOf({"stop", "noop"}) :
           StopImpl(a, c, fl)

SpecPods == InitPodsSpec /\ [][NextPods]_vars

\* ------------------------------------------------------------ SpecSshWrite
\* The rewrites of the SSH config with the write in its steps and a crash of
\* the process at any of them.
InitSshWriteSpec ==
    /\ clock = 0
    /\ tasks = <<>>
    /\ store = InitStore
    /\ ssh \in PodSshFiles
    /\ calls = [i \in TaskIds |-> <<>>]
    /\ nextId = 1
    /\ pc = [p \in Procs |-> "idle"]
    /\ ptasks = [p \in Procs |-> <<>>]
    /\ pdue = [p \in Procs |-> <<>>]
    /\ cancelled = {}
    /\ stale = [p \in Procs |-> {}]
    /\ lost = {}
    /\ postCancel = {}
    /\ late = {}
    /\ podsFile = model_dump_json(InitStore)
    /\ saving = Idle
    /\ fs = NoSave
    /\ sshWrite = NoWrite
    /\ duration = NoDuration

\* the variables no rewrite of the SSH config touches
SshWriteFrame ==
    /\ UNCHANGED <<clock, tasks, store, calls, nextId, fs, duration>>
    /\ UNCHANGED procVars
    /\ UNCHANGED histVars
    /\ UNCHANGED storeVars

\* a rewrite has built its new content and enters _write_ssh_config_lines:
\* the file is opened for writing
BeginWrite(new_lines) ==
    /\ sshWrite.pc = "idle"
    /\ ssh' = write_open(ssh)
    /\ sshWrite' = [pc |-> "open", old |-> ssh, new |-> new_lines]
    /\ SshWriteFrame

UpsertWrite(host_alias, pod_id, hostname, port) ==
    BeginWrite(update_ssh_config(ssh, host_alias, pod_id, hostname, port))

\* remove_ssh_host_block writes only when it deleted a block
RemoveWrite(alias) ==
    /\ remove_ssh_host_block(ssh, alias).ret > 0
    /\ BeginWrite(remove_ssh_host_block(ssh, alias).lines)

\* prune_rp_managed_blocks writes only when it deleted a block
PruneWrite(valid_aliases) ==
    /\ prune_rp_managed_blocks(ssh, valid_aliases).ret > 0
    /\ BeginWrite(prune_rp_managed_blocks(ssh, valid_aliases).lines)

\* writelines has got one more line to the file
WriteLine ==
    /\ sshWrite.pc = "open"
    /\ Len(ssh) < Len(sshWrite.new)
    /\ ssh' = write_line(ssh, sshWrite.new)
    /\ UNCHANGED sshWrite
    /\ SshWriteFrame

\* every line is written and the file is closed
CloseWrite ==
    /\ sshWrite.pc = "open"
    /\ ssh = sshWrite.new
    /\ sshWrite' = NoWrite
    /\ UNCHANGED ssh
    /\ SshWriteFrame

\* the process dies inside _write_ssh_config_lines
CrashWrite ==
    /\ sshWrite.pc = "open"
    /\ sshWrite' = NoWrite
    /\ UNCHANGED ssh
    /\ SshWriteFrame

NextSshWrite ==
    \/ \E a \in Aliases, p \in Pods : UpsertWrite(a, p, "h1", "22")
    \/ \E a \in Aliases : RemoveWrite(a)
    \/ \E S \in SUBSET Aliases : PruneWrite(S)
    \/ WriteLine
    \/ CloseWrite
    \/ CrashWrite

SpecSshWrite == InitSshWriteSpec /\ [][NextSshWrite]_vars

\* --------------------------------------------------------------- SpecSave
\* Scheduler._save_tasks in its steps, run by two processes: both write
\* schedule.json.tmp, the one name the code derives from schedule.json.

\* an inode no name and no open file refers to is gone
Collect(f) ==
    [f EXCEPT !.inode =
        [i \in Inodes |->
            IF i = f.target \/ i = f.tmp \/ (\E p \in Procs : f.fd[p] = i)
            THEN f.inode[i] ELSE <<>>]]

FreeInode(f) ==
    CHOOSE i \in Inodes :
        /\ i # f.target
        /\ i # f.tmp
        /\ \A p \in Procs : f.fd[p] # i

\* tmp_path.open("w"): the file of that name is emptied, or made if there is
\* none; the process holds it open at offset 0
tmp_open(f, p, n) ==
    LET i == IF f.tmp # 0 THEN f.tmp ELSE FreeInode(f)
    IN  [f EXCEPT !.inode[i] = <<>>,
                  !.tmp = i,
                  !.fd[p] = i,
                  !.doc[p] = n,
                  !.pc[p] = "open",
                  !.raised = @ \ {p}]

\* json.dump, f.write and the close at the end of the with block: the
\* document goes to the open file at offset 0, over what is there
tmp_dump(f, p) ==
    LET i == f.fd[p]
        was == f.inode[i]
        d == Document(p, f.doc[p])
        rest == IF Len(was) > Len(d)
                THEN SubSeq(was, Len(d) + 1, Len(was)) ELSE <<>>
    IN  Collect([f EXCEPT !.inode[i] = d \o rest,
                          !.fd[p] = 0,
                          !.pc[p] = "closed"])

\* tmp_path.replace(SCHEDULE_FILE): the file named schedule.json.tmp gets the
\* name schedule.json; FileNotFoundError when there is no such file
tmp_replace(f, p) ==
    IF f.tmp = 0
    THEN [f EXCEPT !.pc[p] = "idle", !.raised = @ \cup {p}]
    ELSE Collect([f EXCEPT !.target = f.tmp, !.tmp = 0, !.pc[p] = "idle"])

InitSaveSpec ==
    /\ clock = 0
    /\ tasks = <<>>
    /\ store = InitStore
    /\ ssh = <<>>
    /\ calls = [i \in TaskIds |-> <<>>]
    /\ nextId = 1
    /\ pc = [p \in Procs |-> "idle"]
    /\ ptasks = [p \in Procs |-> <<>>]
    /\ pdue = [p \in Procs |-> <<>>]
    /\ cancelled = {}
    /\ stale = [p \in Procs |-> {}]
    /\ lost = {}
    /\ postCancel = {}
    /\ late = {}
    /\ podsFile = model_dump_json(InitStore)
    /\ saving = Idle
    /\ fs = NoSave
    /\ sshWrite = NoWrite
    /\ duration = NoDuration

\* the variables _save_tasks does not touch
SaveFrame ==
    /\ UNCHANGED <<clock, tasks, store, ssh, calls, nextId, sshWrite, duration>>
    /\ UNCHANGED procVars
    /\ UNCHANGED histVars
    /\ UNCHANGED storeVars

SaveOpen(p, n) ==
    /\ fs.pc[p] = "idle"
    /\ fs' = tmp_open(fs, p, n)
    /\ SaveFrame

SaveDump(p) ==
    /\ fs.pc[p] = "open"
    /\ fs' = tmp_dump(fs, p)
    /\ SaveFrame

SaveReplace(p) ==
    /\ fs.pc[p] = "closed"
    /\ fs' = tmp_replace(fs, p)
    /\ SaveFrame

NextSave ==
    \/ \E p \in Procs, n \in 1..MaxDoc : SaveOpen(p, n)
    \/ \E p \in Procs : SaveDump(p)
    \/ \E p \in Procs : SaveReplace(p)

SpecSave == InitSaveSpec /\ [][NextSave]_vars

\* --------------------------------------------------------------- SpecParse
\* parse_duration_string on every text of up to MaxText characters
MaxText == 3
Chars == Digits \cup Units \cup Spaces \cup {"x"}
DurationTexts == UNION {[1..n -> Chars] : n \in 0..MaxText}

InitParseSpec ==
    /\ clock = 0
    /\ tasks = <<>>
    /\ store = InitStore
    /\ ssh = InitSsh
    /\ calls = [i \in TaskIds |-> <<>>]
    /\ nextId = 1
    /\ pc = [p \in Procs |-> "idle"]
    /\ ptasks = [p \in Procs |-> <<>>]
    /\ pdue = [p \in Procs |-> <<>>]
    /\ cancelled = {}
    /\ stale = [p \in Procs |-> {}]
    /\ lost = {}
    /\ postCancel = {}
    /\ late = {}
    /\ podsFile = model_dump_json(InitStore)
    /\ saving = Idle
    /\ fs = NoSave
    /\ sshWrite = NoWrite
    /\ duration \in {[NoDuration EXCEPT !.text = t] : t \in DurationTexts}

\* stop_command --in text, up to the parse
ParseDuration ==
    /\ ~duration.done
    /\ duration' = [text |-> duration.text, done |-> TRUE,
                    raised |-> parse_duration_string(duration.text).raised,
                    ret |-> parse_duration_string(duration.text).ret]
    /\ UNCHANGED <<clock, tasks, store, ssh, calls, nextId, fs, sshWrite>>
    /\ UNCHANGED procVars
    /\ UNCHANGED histVars
    /\ UNCHANGED storeVars

NextParse == ParseDuration

SpecParse == InitParseSpec /\ [][NextParse]_vars

\* ================================================================ properties
\* C1 as the specification states it: in every reachable state and whatever
\* the environment of the tick, a tick at the current clock stops, exactly
\* once and at the pod bound to its alias, every PENDING task with
\* when_epoch <= now whose alias is bound and whose provider stop succeeds,
\* removes the managed SSH stanza of the alias and sets the task COMPLETED;
\* a task with when_epoch > now stays as it is and causes no provider call.
C1_AsStated ==
    \A env \in {e \in Envs : e.api} :
        LET r == scheduler_tick_command(tasks, store, ssh, calls, clock, env)
            bound == get_all_aliases(store)
        IN  \A i \in 1..Len(tasks) :
                LET t == tasks[i]
                IN  /\ ( /\ t.status = "pending"
                         /\ t.when_epoch <= clock
                         /\ t.alias \in DOMAIN bound
                         /\ bound[t.alias] \notin env.stopErr )
                       => /\ r.calls[t.id] = calls[t.id] \o <<bound[t.alias]>>
                          /\ \A b \in BlockSet(r.ssh) :
                                 ~(b.managed /\ t.alias \in b.hosts)
                          /\ r.disk[i].status = "completed"
                    /\ (t.status = "pending" /\ t.when_epoch > clock)
                       => /\ r.disk[i] = t
                          /\ r.calls[t.id] = calls[t.id]

\* C1, amended: the same, for the due tasks whose provider stop succeeds and
\* for whose alias the removal of the SSH stanza does not raise.
C1_TickExecutesDue ==
    \A env \in {e \in Envs : e.api} :
        LET r == scheduler_tick_command(tasks, store, ssh, calls, clock, env)
            bound == get_all_aliases(store)
        IN  \A i \in 1..Len(tasks) :
                LET t == tasks[i]
                IN  /\ ( /\ t.status = "pending"
                         /\ t.when_epoch <= clock
                         /\ t.alias \in DOMAIN bound
                         /\ bound[t.alias] \notin env.stopErr
                         /\ t.alias \notin env.sshErr )
                       => /\ r.calls[t.id] = calls[t.id] \o <<bound[t.alias]>>
                          /\ \A b \in BlockSet(r.ssh) :
                                 ~(b.managed /\ t.alias \in b.hosts)
                          /\ r.disk[i].status = "completed"
                    /\ (t.status = "pending" /\ t.when_epoch > clock)
                       => /\ r.disk[i] = t
                          /\ r.calls[t.id] = calls[t.id]

\* a tick has completed one task (one provider call, managed stanza gone, the
\* user's own stanza for the alias still there) and left a later one PENDING
C1_Witness ==
    \E i, j \in 1..Len(tasks) :
        /\ tasks[i].status = "completed"
        /\ Len(calls[tasks[i].id]) = 1
        /\ \A b \in BlockSet(ssh) :
               ~(b.managed /\ tasks[i].alias \in b.hosts)
        /\ \E b \in BlockSet(ssh) : tasks[i].alias \in b.hosts
        /\ tasks[j].status = "pending"
        /\ tasks[j].when_epoch > clock
        /\ calls[tasks[j].id] = <<>>

\* C2 as the specification states it: a task that is COMPLETED, CANCELLED or
\* FAILED keeps that status in every later task list that still holds it
\* (schedule_stop, cancel and tick never change it).
C2_TerminalIsForever ==
    [][\A i \in 1..Len(tasks) : \A j \in 1..Len(tasks') :
           (tasks[i].status \in Terminal /\ tasks'[j].id = tasks[i].id)
               => tasks'[j].status = tasks[i].status]_vars

\* a FAILED task is in the list, and cancel on it writes it back CANCELLED
C2_Witness ==
    \E i \in 1..Len(tasks) :
        /\ tasks[i].status = "failed"
        /\ cancel_task(tasks, tasks, tasks[i].id).disk[i].status = "cancelled"

\* C3: a due task whose action fails (alias unbound at fire time, provider
\* stop raises, SSH removal raises) is FAILED after the tick with last_error
\* the message of the exception, the list keeps all its tasks, and every
\* other due task of the tick has been executed as well.
C3_FailureIsRecorded ==
    \A env \in {e \in Envs : e.api} :
        LET r == scheduler_tick_command(tasks, store, ssh, calls, clock, env)
            bound == get_all_aliases(store)
        IN  /\ Len(r.disk) = Len(tasks)
            /\ \A i \in 1..Len(tasks) :
                   LET t == tasks[i]
                   IN  is_due(t, clock) =>
                       /\ r.disk[i].id = t.id
                       /\ r.disk[i].status \in {"completed", "failed"}
                       /\ t.alias \notin DOMAIN bound
                          => /\ r.disk[i].status = "failed"
                             /\ r.disk[i].last_error = ErrAlias
                             /\ r.calls[t.id] = calls[t.id]
                       /\ (t.alias \in DOMAIN bound
                           /\ bound[t.alias] \in env.stopErr)
                          => /\ r.disk[i].status = "failed"
                             /\ r.disk[i].last_error = ErrProvider
                       /\ (t.alias \in DOMAIN bound
                           /\ bound[t.alias] \notin env.stopErr
                           /\ t.alias \in env.sshErr)
                          => /\ r.disk[i].status = "failed"
                             /\ r.disk[i].last_error = ErrSsh
                             /\ r.calls[t.id] =
                                    calls[t.id] \o <<bound[t.alias]>>

\* a tick has recorded a failure for one task and gone on to complete the
\* next one
C3_Witness ==
    \E i, j \in 1..Len(tasks) :
        /\ i < j
        /\ tasks[i].status = "failed"
        /\ tasks[i].last_error \in {ErrAlias, ErrProvider, ErrSsh}
        /\ tasks[j].status = "completed"
        /\ tasks[i].when_epoch = tasks[j].when_epoch

C6_DueIffPendingAndPast ==
    \A now \in 0..(MaxClock + 1) :
        /\ \A i \in 1..Len(tasks) :
               /\ is_due(tasks[i], now)
                      <=> (tasks[i].status = "pending"
                           /\ tasks[i].when_epoch <= now)
               /\ is_due(tasks[i], now) => is_due(tasks[i], now + 1)
               /\ tasks[i].status \in Terminal => ~is_due(tasks[i], now)
        /\ get_due_tasks(tasks, now) =
               SelectSeq(tasks, LAMBDA t : t.status = "pending"
                                           /\ t.when_epoch <= now)
        /\ \A env \in Envs :
               LET r == scheduler_tick_command(tasks, store, ssh, calls, now,
                                               env)
               IN  \A i \in 1..Len(tasks) :
                       tasks[i].status \in Terminal
                           => /\ r.disk[i] = tasks[i]
                              /\ r.calls[tasks[i].id] = calls[tasks[i].id]

\* a FAILED task whose instant has passed, stopped at the provider once, sits
\* next to a PENDING task that is due
C6_Witness ==
    \E i, j \in 1..Len(tasks) :
        /\ tasks[i].status = "failed"
        /\ tasks[i].last_error = ErrSsh
        /\ Len(calls[tasks[i].id]) = 1
        /\ tasks[i].when_epoch < clock
        /\ is_due(tasks[j], clock)

\* C7 as the specification states it: whenever a tick at the current clock
\* returns, no task is left PENDING with when_epoch <= now, and every task
\* that was due is COMPLETED or FAILED.
C7_AsStated ==
    \A env \in Envs :
        LET r == scheduler_tick_command(tasks, store, ssh, calls, clock, env)
        IN  /\ \A i \in 1..Len(r.disk) : ~is_due(r.disk[i], clock)
            /\ \A i \in 1..Len(tasks) :
                   is_due(tasks[i], clock)
                       => r.disk[i].status \in {"completed", "failed"}

\* C7, amended: the same for a tick that could set up the provider client.
\* A tick whose set-up fails returns with the due tasks still PENDING.
C7_NoDueTaskLeft ==
    \A env \in Envs :
        LET r == scheduler_tick_command(tasks, store, ssh, calls, clock, env)
        IN  IF env.api
            THEN /\ \A i \in 1..Len(r.disk) : ~is_due(r.disk[i], clock)
                 /\ \A i \in 1..Len(tasks) :
                        is_due(tasks[i], clock)
                            => /\ r.disk[i].id = tasks[i].id
                               /\ r.disk[i].status \in {"completed", "failed"}
            ELSE r.disk = tasks /\ r.calls = calls /\ r.ssh = ssh

\* two tasks that were due together have both been executed by a tick
C7_Witness ==
    /\ Len(tasks) = 2
    /\ \A i \in 1..2 :
           /\ tasks[i].status \in {"completed", "failed"}
           /\ tasks[i].when_epoch = clock
           /\ Len(calls[tasks[i].id]) = 1

\* C8 as the specification states it: the clean-up of the task list removes
\* exactly the COMPLETED and CANCELLED tasks, keeps the PENDING and FAILED
\* ones unchanged and in order, returns the number removed and leaves that
\* list in schedule.json.
C8_AsStated ==
    LET r == clear_completed_tasks(tasks, tasks)
        kept == SelectSeq(tasks,
                          LAMBDA t : t.status \notin {"completed", "cancelled"})
    IN  /\ r.mem = kept
        /\ r.disk = kept
        /\ r.ret = Len(tasks) - Len(kept)

\* the list holds a CANCELLED task and the clean-up returns it in its result
C8_Witness ==
    \E i \in 1..Len(tasks) :
        /\ tasks[i].status = "cancelled"
        /\ \E j \in 1..Len(clear_completed_tasks(tasks, tasks).disk) :
               clear_completed_tasks(tasks, tasks).disk[j] = tasks[i]

\* C9: schedule_stop(alias, when) returns a PENDING stop task for the alias
\* whose when_epoch is the instant of when in UTC epoch seconds, whatever the
\* local zone, with an id no task of the list has; the list in memory and in
\* schedule.json is the old list followed by that task.
C9_ScheduleAppendsPending ==
    /\ \A i \in 1..Len(tasks) : tasks[i].id < nextId
    /\ \A a \in Aliases, w \in Datetimes, loc \in Offsets :
           LET r == schedule_stop(tasks, nextId, a, w, loc)
           IN  /\ r.ret.status = "pending"
               /\ r.ret.action = "stop"
               /\ r.ret.alias = a
               /\ r.ret.when_epoch = w.wall - w.off
               /\ r.ret.last_error = NoError
               /\ \A i \in 1..Len(tasks) : tasks[i].id # r.ret.id
               /\ r.disk = Append(tasks, r.ret)
               /\ r.mem = r.disk

\* two tasks have been scheduled, the later one for the earlier instant
C9_Witness ==
    /\ Len(tasks) = 2
    /\ tasks[1].id # tasks[2].id
    /\ tasks[1].status = "pending" /\ tasks[2].status = "pending"
    /\ tasks[2].when_epoch < tasks[1].when_epoch
    /\ tasks[1].alias # tasks[2].alias

\* C10: whatever the Store holds (aliases in the flat map, in the per-alias
\* metadata, or both), after add_alias(a, p) has succeeded pods.json maps a
\* to p and binds every other alias as before, and after remove_alias(a) has
\* returned pods.json has no a and binds every other alias as before.
C10_AddRemoveAlias ==
    \A a \in Aliases :
        /\ \A p \in Pods, force \in BOOLEAN :
               LET r == add_alias(store, a, p, force)
               IN  IF r.raised
                   THEN r.disk = store /\ a \in DOMAIN get_all_aliases(store)
                        /\ ~force
                   ELSE /\ a \in DOMAIN get_all_aliases(r.disk)
                        /\ get_all_aliases(r.disk)[a] = p
                        /\ get_all_aliases(r.mem) = get_all_aliases(r.disk)
                        /\ \A b \in Aliases \ {a} :
                               /\ b \in DOMAIN get_all_aliases(r.disk)
                                      <=> b \in DOMAIN get_all_aliases(store)
                               /\ b \in DOMAIN get_all_aliases(store)
                                      => get_all_aliases(r.disk)[b] =
                                             get_all_aliases(store)[b]
        /\ \A missing_ok \in BOOLEAN :
               LET r == remove_alias(store, a, missing_ok)
               IN  IF r.raised
                   THEN r.disk = store /\ a \notin DOMAIN get_all_aliases(store)
                        /\ ~missing_ok
                   ELSE /\ a \notin DOMAIN get_all_aliases(r.disk)
                        /\ a \notin DOMAIN get_all_aliases(r.mem)
                        /\ \A b \in Aliases \ {a} :
                               /\ b \in DOMAIN get_all_aliases(r.disk)
                                      <=> b \in DOMAIN get_all_aliases(store)
                               /\ b \in DOMAIN get_all_aliases(store)
                                      => get_all_aliases(r.disk)[b] =
                                             get_all_aliases(store)[b]

\* a mixed Store: x has been re-bound to p2 and lives in the metadata, y is
\* still in the flat map
C10_Witness ==
    /\ "x" \in DOMAIN store.pod_metadata
    /\ "x" \notin DOMAIN store.aliases
    /\ get_all_aliases(store)["x"] = "p2"
    /\ "y" \in DOMAIN store.aliases
    /\ "y" \notin DOMAIN store.pod_metadata

\* C11: for every loadable content of pods.json, add_alias without force on
\* a name that exists raises alias-already-exists and leaves the
\* configuration in memory and the document to save as they were (the alias
\* keeps its pod id and its config, the other entries theirs); with force
\* the name is bound to the new pod id and nothing else changes.
C11_DuplicateAliasRefused ==
    ~_load_config(podsFile).raised =>
        LET cfg == _load_config(podsFile).cfg
            all == get_all_aliases(cfg)
        IN  \A a \in DOMAIN all : \A p \in Pods :
                /\ LET r == add_alias(cfg, a, p, FALSE)
                   IN  r.raised /\ r.mem = cfg /\ r.disk = cfg
                /\ LET r == add_alias(cfg, a, p, TRUE)
                   IN  /\ ~r.raised
                       /\ r.mem = r.disk
                       /\ DOMAIN get_all_aliases(r.disk) = DOMAIN all
                       /\ get_all_aliases(r.disk)[a] = p
                       /\ \A b \in (DOMAIN all) \ {a} :
                              get_all_aliases(r.disk)[b] = all[b]
                       /\ r.disk.extra = cfg.extra

\* pods.json, saved by the program, binds x to p2 with a path of its own and
\* holds a second alias: a further add_alias of x is refused
C11_Witness ==
    /\ saving.pc = "idle"
    /\ podsFile.has = FieldKeys
    /\ "x" \in DOMAIN podsFile.pod_metadata
    /\ podsFile.pod_metadata["x"] = [pod_id |-> "p2", path |-> "/ws"]
    /\ "t1" \in DOMAIN get_all_aliases(_load_config(podsFile).cfg)
    /\ add_alias(_load_config(podsFile).cfg, "x", "p1", FALSE).raised

\* C12: find_next_alias_index gives the smallest n >= 1 whose name
\* Format(template, n) is no alias of get_all_aliases (flat map and metadata
\* alike); create_pod_from_template without an override asks for exactly that
\* name, with an override for the override, and create_pod binds the name
\* without touching any alias that was there.
C12_NextFreeTemplateName ==
    ~_load_config(podsFile).raised =>
        LET cfg == _load_config(podsFile).cfg
            all == get_all_aliases(cfg)
        IN  \A t \in Templates :
                LET n == find_next_alias_index(cfg, t)
                    alias == create_pod_from_template(cfg, t, "")
                IN  /\ n >= 1
                    /\ Format(t, n) \notin DOMAIN all
                    /\ \A k \in 1..(n - 1) : Format(t, k) \in DOMAIN all
                    /\ alias = Format(t, n)
                    /\ create_pod_from_template(cfg, t, "x") = "x"
                    /\ \A p \in Pods :
                           LET r == create_pod(cfg, alias, p, FALSE, FALSE)
                           IN  /\ ~r.raised
                               /\ get_all_aliases(r.disk)[alias] = p
                               /\ \A b \in DOMAIN all :
                                      get_all_aliases(r.disk)[b] = all[b]

\* t1 sits in the flat map and t2, created from the template, in the
\* metadata: the next name is t3
C12_Witness ==
    /\ saving.pc = "idle"
    /\ podsFile.has = FieldKeys
    /\ "t1" \in DOMAIN podsFile.aliases
    /\ "t2" \in DOMAIN podsFile.pod_metadata
    /\ \E t \in Templates :
           find_next_alias_index(_load_config(podsFile).cfg, t) = 3

\* C13: set_pod_config on an existing alias leaves get_all_aliases as it was,
\* in memory and after the document is saved and loaded again; the alias is
\* then in the per-alias metadata with its pod id and no longer in the flat
\* map, every other alias is where it was; on an unknown alias it raises
\* alias-not-found and changes nothing.
C13_SetConfigKeepsAliases ==
    ~_load_config(podsFile).raised =>
        LET cfg == _load_config(podsFile).cfg
            all == get_all_aliases(cfg)
        IN  \A a \in StoreNames \cup DOMAIN all : \A v \in Paths :
                LET r == set_pod_config(cfg, a, v)
                    back == _load_config(model_dump_json(r.disk))
                IN  IF a \notin DOMAIN all
                    THEN r.raised /\ r.mem = cfg /\ r.disk = cfg
                    ELSE /\ ~r.raised
                         /\ get_all_aliases(r.mem) = all
                         /\ ~back.raised
                         /\ back.cfg = r.mem
                         /\ get_all_aliases(back.cfg) = all
                         /\ a \in DOMAIN r.mem.pod_metadata
                         /\ a \notin DOMAIN r.mem.aliases
                         /\ r.mem.pod_metadata[a] =
                                [pod_id |-> all[a], path |-> v]
                         /\ \A b \in (DOMAIN all) \ {a} :
                                /\ b \in DOMAIN r.mem.aliases
                                       <=> b \in DOMAIN cfg.aliases
                                /\ b \in DOMAIN r.mem.pod_metadata
                                       <=> b \in DOMAIN cfg.pod_metadata

\* x has been given a path and moved into the metadata with its pod id
\* while t2 is still in the flat map
C13_Witness ==
    /\ saving.pc = "idle"
    /\ podsFile.has = FieldKeys
    /\ "x" \in DOMAIN podsFile.pod_metadata
    /\ podsFile.pod_metadata["x"] = [pod_id |-> "p1", path |-> "/ws"]
    /\ "x" \notin DOMAIN podsFile.aliases
    /\ "t2" \in DOMAIN podsFile.aliases
    /\ "t2" \notin DOMAIN podsFile.pod_metadata

\* C14 as the specification states it: loading never raises; a pods.json
\* that is missing, is no JSON, is no JSON object or has a field of the wrong
\* type loads as the empty modern document, and a schedule.json of any such
\* kind loads as the empty list.
C14_LoadNeverRaises ==
    /\ ~_load_config(podsFile).raised
    /\ (podsFile.kind # "object" \/ podsFile.bad # {})
           => _load_config(podsFile).cfg = EmptyConfig
    /\ \A tf \in TaskFiles :
           /\ ~_load_tasks(tf).raised
           /\ (tf.kind # "list" \/ tf.bad) => _load_tasks(tf).tasks = <<>>

\* pods.json is a JSON object whose aliases field has the wrong type, and
\* loading it raises
C14_Witness ==
    /\ podsFile.kind = "object"
    /\ "aliases" \in podsFile.bad
    /\ _load_config(podsFile).raised

\* C15 as the specification states it: while a save is under way pods.json
\* holds the complete previous document or the complete new one.
C15_SaveIsAtomic ==
    saving.pc = "open" =>
        \/ podsFile = saving.old
        \/ podsFile = model_dump_json(saving.cfg)

\* a save is under way over a document that held aliases, and pods.json is
\* empty
C15_Witness ==
    /\ saving.pc = "open"
    /\ saving.old.kind = "object"
    /\ DOMAIN get_all_aliases(_load_config(saving.old).cfg) # {}
    /\ podsFile = NoFile("invalid")
    /\ _load_config(podsFile).cfg = EmptyConfig

\* C16 as the specification states it: for a modern pods.json (an object
\* with at least one of AppConfig's keys), the document written after a load
\* still has every unknown top-level key with its value, and loading that
\* document gives the configuration the first load gave.
C16_UnknownKeysKept ==
    (podsFile.kind = "object" /\ podsFile.has # {}
     /\ ~_load_config(podsFile).raised) =>
        LET first == _load_config(podsFile)
            written == model_dump_json(first.cfg)
            second == _load_config(written)
        IN  /\ \A k \in DOMAIN podsFile.extra :
                   /\ k \in DOMAIN written.extra
                   /\ written.extra[k] = podsFile.extra[k]
            /\ ~second.raised
            /\ second.cfg = first.cfg

\* a pods.json with pod_metadata and an unknown key has been loaded and
\* saved: both keys are now alias names
C16_Witness ==
    /\ saving.pc = "idle"
    /\ podsFile.has = FieldKeys
    /\ "future" \in DOMAIN podsFile.aliases
    /\ "pod_metadata" \in DOMAIN podsFile.aliases
    /\ "future" \notin DOMAIN podsFile.extra

\* the managed stanzas of a file that list the alias on their Host line
ManagedFor(lines, alias) ==
    {b \in BlockSet(lines) : b.managed /\ alias \in b.hosts}

\* the lines of a block whose first token is key
LinesOf(lines, b, key) ==
    {lines[j] : j \in {i \in b.start..(b.end - 1) :
                          Len(lines[i]) >= 1 /\ lines[i][1] = key}}

\* exactly one managed stanza lists the alias, and it carries these values
OneStanzaWith(lines, alias, pod_id, hostname, port) ==
    /\ Cardinality(ManagedFor(lines, alias)) = 1
    /\ \A b \in ManagedFor(lines, alias) :
          /\ LinesOf(lines, b, MARKER_PREFIX) = {_build_marker(alias, pod_id)}
          /\ LinesOf(lines, b, "HostName") = {<<"HostName", hostname>>}
          /\ LinesOf(lines, b, "Port") = {<<"Port", port>>}

\* no managed stanza lists the alias after the first stanza that lists it
NoLaterManaged(lines, alias) ==
    LET blocks == _parse_ssh_blocks(lines)
    IN  \A k, l \in 1..Len(blocks) :
            (k < l /\ alias \in blocks[k].hosts /\ alias \in blocks[l].hosts)
                => ~blocks[l].managed

\* C17 as the specification states it: whatever the content of the SSH
\* config, upsert(a, p, h, port) followed by upsert(a, p2, h2, port2) leaves
\* exactly one managed stanza whose Host line names a, with the marker,
\* HostName and Port of the second call.
C17_AsStated ==
    \A a \in Aliases, p \in Pods, h \in Hostnames, port \in Ports,
       p2 \in Pods, h2 \in Hostnames, port2 \in Ports :
        OneStanzaWith(
            update_ssh_config(update_ssh_config(ssh, a, p, h, port),
                              a, p2, h2, port2),
            a, p2, h2, port2)

\* C17, amended: when no managed stanza lists a after the first stanza of
\* the file that lists a, upsert(a, p, h, port) followed by
\* upsert(a, p2, h2, port2) leaves exactly one managed stanza whose Host line
\* names a, with the marker, HostName and Port of the second call.
C17_TwoUpsertsOneStanza ==
    \A a \in Aliases, p \in Pods, h \in Hostnames, port \in Ports,
       p2 \in Pods, h2 \in Hostnames, port2 \in Ports :
        NoLaterManaged(ssh, a) =>
            OneStanzaWith(
                update_ssh_config(update_ssh_config(ssh, a, p, h, port),
                                  a, p2, h2, port2),
                a, p2, h2, port2)

\* a first upsert of x has written its stanza next to a stanza of the user,
\* and a second upsert with other values rewrites that one stanza
C17_Witness ==
    /\ NoLaterManaged(ssh, "x")
    /\ OneStanzaWith(ssh, "x", "p1", "h1", "22")
    /\ \E b \in BlockSet(ssh) : ~b.managed
    /\ OneStanzaWith(update_ssh_config(ssh, "x", "p2", "h2", "2222"),
                     "x", "p2", "h2", "2222")
    /\ Len(update_ssh_config(ssh, "x", "p2", "h2", "2222")) = Len(ssh)

\* the lines of a file that are in no managed stanza, in file order: the
\* preamble and the lines of the stanzas without marker
OutsideManaged(lines) ==
    DeleteBlocks(lines, {b \in BlockSet(lines) : b.managed})

\* s can be obtained from t by deleting lines of t
RECURSIVE IsSubsequence(_, _)
IsSubsequence(s, t) ==
    IF s = <<>> THEN TRUE
    ELSE IF t = <<>> THEN FALSE
    ELSE IF Head(s) = Head(t) THEN IsSubsequence(Tail(s), Tail(t))
    ELSE IsSubsequence(s, Tail(t))

\* C18: upsert, remove and prune change managed stanzas only: whatever the
\* file and the arguments, every line that is outside the managed stanzas
\* (preamble lines and all lines of stanzas without marker) is still in the
\* file afterwards, unchanged and in the same relative order.
C18_AsStated ==
    /\ \A a \in Aliases :
          IsSubsequence(OutsideManaged(ssh),
                        remove_ssh_host_block(ssh, a).lines)
    /\ \A S \in SUBSET Aliases :
          IsSubsequence(OutsideManaged(ssh),
                        prune_rp_managed_blocks(ssh, S).lines)
    /\ \A a \in Aliases, p \in Pods, h \in Hostnames, port \in Ports :
          IsSubsequence(OutsideManaged(ssh),
                        update_ssh_config(ssh, a, p, h, port))

\* after earlier rewrites the file holds a stanza of the user for x with an
\* option line, and an upsert of x drops that line
C18_Witness ==
    /\ Len(ssh) > MaxLines
    /\ \E b \in BlockSet(ssh) :
          /\ ~b.managed
          /\ "x" \in b.hosts
          /\ \E j \in b.start..(b.end - 1) : ssh[j] = <<"User", "me">>
    /\ \A j \in 1..Len(update_ssh_config(ssh, "x", "p1", "h1", "22")) :
          update_ssh_config(ssh, "x", "p1", "h1", "22")[j] # <<"User", "me">>

\* the stanzas of a file, each as the sequence of its lines, in file order
Stanzas(lines) ==
    [k \in 1..Len(_parse_ssh_blocks(lines)) |->
        SubSeq(lines, _parse_ssh_blocks(lines)[k].start,
                      _parse_ssh_blocks(lines)[k].end - 1)]

\* the lines before the first Host line
Preamble(lines) ==
    LET H == {i \in 1..Len(lines) : IsHostLine(lines[i])}
    IN  IF H = {} THEN lines ELSE SubSeq(lines, 1, Nth(H, 1) - 1)

\* a stanza has a marker line below its Host line
StanzaManaged(st) == \E j \in 2..Len(st) : IsMarkerLine(st[j])

\* the tokens of the Host line of a stanza
StanzaHosts(st) == {st[1][k] : k \in 2..Len(st[1])}

\* C19: remove(alias) deletes exactly the managed stanzas that list the alias
\* among their Host tokens and returns their number; the preamble, the
\* stanzas without marker (naming the alias or not) and the managed stanzas
\* that do not list the alias stay, line for line and in order.
C19_RemoveExactlyManagedOfAlias ==
    \A a \in Aliases :
        LET r == remove_ssh_host_block(ssh, a)
            gone(st) == StanzaManaged(st) /\ a \in StanzaHosts(st)
        IN  /\ Stanzas(r.lines) =
                   SelectSeq(Stanzas(ssh), LAMBDA st : ~gone(st))
            /\ Preamble(r.lines) = Preamble(ssh)
            /\ r.ret = Len(SelectSeq(Stanzas(ssh), gone))

\* the file holds a managed stanza listing x, a stanza of the user naming x
\* and a managed stanza not listing x; remove(x) deletes the first one only
C19_Witness ==
    /\ \E st \in {Stanzas(ssh)[k] : k \in 1..Len(Stanzas(ssh))} :
          StanzaManaged(st) /\ "x" \in StanzaHosts(st)
    /\ \E st \in {Stanzas(ssh)[k] : k \in 1..Len(Stanzas(ssh))} :
          ~StanzaManaged(st) /\ "x" \in StanzaHosts(st)
    /\ \E st \in {Stanzas(ssh)[k] : k \in 1..Len(Stanzas(ssh))} :
          StanzaManaged(st) /\ "x" \notin StanzaHosts(st)
    /\ remove_ssh_host_block(ssh, "x").ret = 1
    /\ Len(Stanzas(remove_ssh_host_block(ssh, "x").lines)) =
           Len(Stanzas(ssh)) - 1

\* C20: prune(S) deletes exactly the managed stanzas whose Host tokens are
\* disjoint from S and returns their number; the managed stanzas with at
\* least one token in S, every stanza without marker and the preamble stay,
\* line for line and in order.
C20_PruneExactlyDisjointManaged ==
    \A S \in SUBSET Aliases :
        LET r == prune_rp_managed_blocks(ssh, S)
            gone(st) == StanzaManaged(st) /\ StanzaHosts(st) \cap S = {}
        IN  /\ Stanzas(r.lines) =
                   SelectSeq(Stanzas(ssh), LAMBDA st : ~gone(st))
            /\ Preamble(r.lines) = Preamble(ssh)
            /\ r.ret = Len(SelectSeq(Stanzas(ssh), gone))

\* with S = {y}: a managed stanza 'Host y x' (one token in S), a managed
\* stanza of x alone and lines outside the managed stanzas; prune deletes
\* the stanza of x only
C20_Witness ==
    /\ \E st \in {Stanzas(ssh)[k] : k \in 1..Len(Stanzas(ssh))} :
          StanzaManaged(st) /\ StanzaHosts(st) = {"x", "y"}
    /\ \E st \in {Stanzas(ssh)[k] : k \in 1..Len(Stanzas(ssh))} :
          StanzaManaged(st) /\ StanzaHosts(st) = {"x"}
    /\ OutsideManaged(ssh) # <<>>
    /\ prune_rp_managed_blocks(ssh, {"y"}).ret = 1
    /\ OutsideManaged(prune_rp_managed_blocks(ssh, {"y"}).lines) =
           OutsideManaged(ssh)

\* the file without the blank lines at its end
RECURSIVE RStrip(_)
RStrip(lines) ==
    IF lines # <<>> /\ lines[Len(lines)] = <<>>
    THEN RStrip(SubSeq(lines, 1, Len(lines) - 1))
    ELSE lines

\* C21 as the specification states it: whatever the content of the SSH
\* config, upsert(a, ...) followed by remove(a) gives back the content the
\* file had before the upsert, up to trailing whitespace.
C21_AsStated ==
    \A a \in Aliases, p \in Pods, h \in Hostnames, port \in Ports :
        RStrip(remove_ssh_host_block(
                   update_ssh_config(ssh, a, p, h, port), a).lines)
            = RStrip(ssh)

\* C21, amended: when no stanza of the file lists a on its Host line,
\* upsert(a, ...) followed by remove(a) gives back the content the file had
\* before the upsert, up to trailing whitespace.
C21_UpsertRemoveRestores ==
    \A a \in Aliases, p \in Pods, h \in Hostnames, port \in Ports :
        (\A b \in BlockSet(ssh) : a \notin b.hosts) =>
            RStrip(remove_ssh_host_block(
                       update_ssh_config(ssh, a, p, h, port), a).lines)
                = RStrip(ssh)

\* a file that earlier rewrites have produced, with stanzas but none for y
\* and no blank line at its end: upsert(y) then remove(y) gives the file back
\* with the separating blank line added
C21_Witness ==
    /\ Len(ssh) > MaxLines
    /\ ssh[Len(ssh)] # <<>>
    /\ \A b \in BlockSet(ssh) : "y" \notin b.hosts
    /\ remove_ssh_host_block(
           update_ssh_config(ssh, "y", "p2", "h2", "22"), "y").ret = 1
    /\ remove_ssh_host_block(
           update_ssh_config(ssh, "y", "p2", "h2", "22"), "y").lines
         = ssh \o << <<>> >>

\* the commands' view of the current state with no provider call made yet
Untouched(r, cloud) ==
    /\ r.s.store = store
    /\ r.s.ssh = ssh
    /\ r.s.tasks = tasks
    /\ r.s.cloud = cloud
    /\ r.s.api = {}

\* C22: a create with dry_run set, from a direct specification or from a
\* template, with or without force and whatever the provider would do,
\* makes no provider call and leaves the Store, the SSH config and the task
\* list as they are; so does PodManager.create_pod with dry_run set.
C22_DryRunCreatesNothing ==
    \A alias \in Aliases \cup {""}, template \in Templates \cup {NoTemplate},
       force \in BOOLEAN, new_id \in Pods, cloud \in ActClouds,
       fail \in OneOf({"gpu", "create", "wait", "get"}) :
        /\ Untouched(create_command(World(cloud), alias, template, force,
                                    TRUE, new_id, fail), cloud)
        /\ alias # "" =>
             Untouched(PodManager_create_pod(World(cloud), alias, force, TRUE,
                                             new_id, fail), cloud)

\* tasks are scheduled, y is free and the provider has a free pod: the create
\* of y binds it, the dry run of the same create changes nothing
C22_Witness ==
    /\ tasks # <<>>
    /\ ssh # <<>>
    /\ "y" \notin DOMAIN get_all_aliases(store)
    /\ LET cloud == [p \in Pods |-> IF p = "p1" THEN "FREE" ELSE "RUNNING"]
       IN  /\ "y" \in DOMAIN get_all_aliases(
                  create_command(World(cloud), "y", NoTemplate, FALSE, FALSE,
                                 "p1", {}).s.store)
           /\ ~create_command(World(cloud), "y", NoTemplate, FALSE, TRUE,
                              "p1", {}).raised
           /\ Untouched(create_command(World(cloud), "y", NoTemplate, FALSE,
                                       TRUE, "p1", {}), cloud)

\* C23: create_pod writes alias -> pod id into the Store only after the
\* provider's create has returned and before the wait for readiness.  For
\* every alias that may be created (free, or taken with force): when the GPU
\* lookup or the provider's create fails the Store is unchanged; when the
\* wait fails or times out create_pod raises with the alias bound to the id
\* of the pod that was created, and the other aliases as they were.
C23_AliasSavedAfterCreate ==
    \A alias \in Aliases, force \in BOOLEAN, new_id \in Pods,
       cloud \in Clouds, fail \in SUBSET {"gpu", "create", "wait"} :
        LET r == PodManager_create_pod(World(cloud), alias, force, FALSE,
                                       new_id, fail)
            c == create_command(World(cloud), alias, NoTemplate, force, FALSE,
                                new_id, fail)
            old == get_all_aliases(store)
            new == get_all_aliases(r.s.store)
        IN  (alias \notin DOMAIN old \/ force) =>
              IF "gpu" \in fail \/ "create" \in fail \/ cloud[new_id] # "FREE"
              THEN r.raised /\ r.s.store = store
                   /\ c.raised /\ c.s.store = store
              ELSE /\ r.raised = ("wait" \in fail)
                   /\ <<"create_pod", new_id>> \in r.s.api
                   /\ alias \in DOMAIN new /\ new[alias] = new_id
                   /\ \A a \in DOMAIN old \ {alias} :
                          a \in DOMAIN new /\ new[a] = old[a]
                   /\ "wait" \in fail =>
                          c.raised /\ c.s.store = r.s.store /\ c.s.ssh = ssh

\* y is free and the Store holds other aliases: a create of y whose wait
\* times out leaves y bound to the new pod, one whose provider create fails
\* leaves the Store alone
C23_Witness ==
    /\ "y" \notin DOMAIN get_all_aliases(store)
    /\ "x" \in DOMAIN get_all_aliases(store)
    /\ LET cloud == [p \in Pods |-> IF p = "p2" THEN "FREE" ELSE "RUNNING"]
           w == PodManager_create_pod(World(cloud), "y", FALSE, FALSE, "p2",
                                      {"wait"})
           f == PodManager_create_pod(World(cloud), "y", FALSE, FALSE, "p2",
                                      {"create"})
       IN  /\ w.raised /\ get_all_aliases(w.s.store)["y"] = "p2"
           /\ f.raised /\ f.s.store = store

\* C24: for every known alias, provider state and failing operations,
\* destroy_pod calls the provider's stop exactly when the status it reads is
\* RUNNING (a failed status query reads as not running, a failed stop is
\* ignored), then calls terminate, and removes the alias only when terminate
\* has returned; when terminate fails destroy_pod raises, and after the
\* destroy command the alias is still bound and the SSH config is unchanged.
C24_DestroyRemovesAfterTerminate ==
    \A alias \in DOMAIN get_all_aliases(store), cloud \in Clouds,
       fail \in SUBSET {"get", "stop", "terminate"} :
        LET pod_id == get_all_aliases(store)[alias]
            r == destroy_pod(World(cloud), alias, fail)
            c == destroy_command(World(cloud), alias, fail)
            new == get_all_aliases(r.s.store)
        IN  /\ (<<"stop_pod", pod_id>> \in r.s.api) <=>
                   (cloud[pod_id] = "RUNNING" /\ "get" \notin fail)
            /\ <<"terminate_pod", pod_id>> \in r.s.api
            /\ IF "terminate" \in fail
               THEN /\ r.raised /\ r.s.store = store
                    /\ c.raised /\ c.s.store = store /\ c.s.ssh = ssh
               ELSE /\ ~r.raised /\ r.ret = pod_id
                    /\ alias \notin DOMAIN new
                    /\ \A a \in DOMAIN get_all_aliases(store) \ {alias} :
                           a \in DOMAIN new
                           /\ new[a] = get_all_aliases(store)[a]
                    /\ ~c.raised
                    /\ alias \notin DOMAIN get_all_aliases(c.s.store)

\* x is bound and has a managed stanza: a destroy whose terminate fails
\* leaves both, a destroy that goes through removes both
C24_Witness ==
    /\ tasks # <<>>
    /\ "x" \in DOMAIN get_all_aliases(store)
    /\ ManagedFor(ssh, "x") # {}
    /\ LET cloud == [p \in Pods |-> "RUNNING"]
           f == destroy_command(World(cloud), "x", {"terminate"})
           g == destroy_command(World(cloud), "x", {"stop"})
       IN  /\ f.raised /\ f.s.store = store /\ f.s.ssh = ssh
           /\ ~g.raised /\ "x" \notin DOMAIN get_all_aliases(g.s.store)
           /\ ManagedFor(g.s.ssh, "x") = {}
           /\ <<"stop_pod", get_all_aliases(store)["x"]>> \in g.s.api

Rank(a) == CHOOSE k \in 1..Len(SortedNames) : SortedNames[k] = a

C29_AsStated ==
    \A alias \in Aliases, at \in Options, in_ \in Options, dry_run \in BOOLEAN,
       cloud \in ActClouds, fail \in SUBSET {"stop", "get"} :
        LET r == stop_command(World(cloud), alias, at, in_, dry_run, clock, 0,
                              nextId, fail)
        IN  (\/ alias \notin DOMAIN get_all_aliases(store)
             \/ at.given /\ in_.given
             \/ at.given /\ ~at.ok
             \/ in_.given /\ ~in_.ok
             \/ dry_run)
            => r.s.tasks = tasks /\ r.s.api = {}

\* x is bound and there are tasks already: "stop x --at ''" asks the provider
\* to stop the pod of x, and "stop x --at '' --in 1s" adds a task
C29_Witness ==
    /\ tasks # <<>>
    /\ "x" \in DOMAIN get_all_aliases(store)
    /\ LET w == World([p \in Pods |-> "RUNNING"])
           now == stop_command(w, "x", EmptyOption, NoOption, FALSE, clock, 0,
                               nextId, {})
           both == stop_command(w, "x", EmptyOption, InOption, FALSE, clock,
                                0, nextId, {})
       IN  /\ ~now.raised
           /\ <<"stop_pod", get_all_aliases(store)["x"]>> \in now.s.api
           /\ ~both.raised
           /\ Len(both.s.tasks) = Len(tasks) + 1
           /\ both.s.tasks[Len(both.s.tasks)].alias = "x"

\* C30: for every Store, task list and SSH config, untrack of an alias
\* leaves the task list (each task with its status) and the SSH config as
\* they are and calls no provider operation; in the Store the alias is gone
\* and every other alias keeps its pod id.  An unknown alias raises unless
\* missing_ok is set, and then nothing changes at all.
C30_UntrackOnlyUnbinds ==
    \A alias \in Aliases, missing_ok \in BOOLEAN, cloud \in ActClouds :
        LET r == untrack_command(World(cloud), alias, missing_ok)
            old == get_all_aliases(store)
            new == get_all_aliases(r.s.store)
        IN  /\ r.s.tasks = tasks
            /\ r.s.ssh = ssh
            /\ r.s.api = {}
            /\ DOMAIN new = DOMAIN old \ {alias}
            /\ \A a \in DOMAIN new : new[a] = old[a]
            /\ r.raised <=> (alias \notin DOMAIN old /\ ~missing_ok)
            /\ alias \notin DOMAIN old => r.s.store = store

\* x is bound, a pending task stops x and the SSH config holds the managed
\* stanza of x: after untrack of x the binding is gone, the task is still
\* pending and the stanza is still there
C30_Witness ==
    /\ "x" \in DOMAIN get_all_aliases(store)
    /\ \E k \in 1..Len(tasks) :
           tasks[k].alias = "x" /\ tasks[k].status = "pending"
    /\ ManagedFor(ssh, "x") # {}
    /\ LET r == untrack_command(World([p \in Pods |-> "RUNNING"]), "x", FALSE)
       IN  /\ ~r.raised
           /\ "x" \notin DOMAIN get_all_aliases(r.s.store)
           /\ \E k \in 1..Len(r.s.tasks) :
                  r.s.tasks[k].alias = "x" /\ r.s.tasks[k].status = "pending"
           /\ ManagedFor(r.s.ssh, "x") # {}

\* C31: in every reachable state, when a stop of a bound alias is scheduled,
\* the alias is then removed and bound again to any pod id, and a tick runs
\* once the task is due, the provider stop made for the task is for the pod
\* id the alias is bound to when the tick runs; when that differs from the
\* pod id at the time of scheduling, no stop is made for the old pod id on
\* behalf of the task.
C31_FiresOnCurrentBinding ==
    \A a \in Aliases, q \in Pods, when \in {d \in Datetimes : d.off = 0},
       env \in {e \in Envs : e.api} :
        (nextId <= MaxId /\ a \in DOMAIN get_all_aliases(store)) =>
            LET p == get_all_aliases(store)[a]
                sch == schedule_stop(tasks, nextId, a, when, 0)
                un == remove_alias(store, a, FALSE)
                re == add_alias(un.disk, a, q, FALSE)
                now == IF clock >= sch.ret.when_epoch THEN clock
                       ELSE sch.ret.when_epoch
                t == scheduler_tick_command(sch.disk, re.disk, ssh, calls,
                                            now, env)
                i == get_task(t.disk, nextId)
            IN  /\ ~un.raised /\ ~re.raised
                /\ get_all_aliases(re.disk)[a] = q
                /\ t.calls[nextId] = calls[nextId] \o <<q>>
                /\ q # p => \A k \in 1..Len(t.calls[nextId]) :
                                t.calls[nextId][k] # p
                /\ i # 0
                /\ t.disk[i].status =
                       IF q \in env.stopErr \/ a \in env.sshErr
                       THEN "failed" ELSE "completed"

\* x is bound to p1 and has been stopped by an earlier task already; a new
\* stop of x is scheduled, x is rebound to p2, and the tick stops p2
C31_Witness ==
    /\ nextId = 2
    /\ get_all_aliases(store) = [a \in {"x"} |-> "p1"]
    /\ calls[1] = <<"p1">>
    /\ LET when == [wall |-> 1, off |-> 0]
           sch == schedule_stop(tasks, nextId, "x", when, 0)
           re == add_alias(remove_alias(store, "x", FALSE).disk, "x", "p2",
                           FALSE)
           t == scheduler_tick_command(sch.disk, re.disk, ssh, calls, 2,
                                       [api |-> TRUE, stopErr |-> {},
                                        sshErr |-> {}])
       IN  /\ t.calls[2] = <<"p2">>
           /\ t.disk[get_task(t.disk, 2)].status = "completed"

\* the state of a tick after the first k iterations of its loop over the due
\* tasks
AfterIterations(k, env) ==
    RunDue([mem |-> tasks, disk |-> tasks, ssh |-> ssh, calls |-> calls],
           SubSeq(Ids(get_due_tasks(tasks, clock)), 1, k), store, env)

\* C33: at every point of the loop of a tick, each due task the tick has
\* executed already has a when_epoch not later than that of each due task it
\* has still to execute.
C33_AsStated ==
    \A env \in {e \in Envs : e.api},
       k \in 0..Len(get_due_tasks(tasks, clock)) :
        LET s == AfterIterations(k, env)
        IN  \A i, j \in 1..Len(tasks) :
                (/\ is_due(tasks[i], clock) /\ is_due(tasks[j], clock)
                 /\ s.disk[i].status # "pending"
                 /\ s.disk[j].status = "pending")
                => tasks[i].when_epoch <= tasks[j].when_epoch

\* a stop due at 2 was scheduled before a stop due at 1 and both are due:
\* after the first iteration the task due at 2 is COMPLETED and the task due
\* at 1 is still PENDING
C33_Witness ==
    /\ Len(tasks) = 2 /\ clock = 2
    /\ tasks[1].status = "pending" /\ tasks[1].when_epoch = 2
    /\ tasks[2].status = "pending" /\ tasks[2].when_epoch = 1
    /\ tasks[1].alias \in DOMAIN get_all_aliases(store)
    /\ LET s == AfterIterations(1, [api |-> TRUE, stopErr |-> {},
                                    sshErr |-> {}])
       IN  /\ s.disk[1].status = "completed"
           /\ s.disk[2].status = "pending"
           /\ s.calls[tasks[1].id] # <<>>
           /\ s.calls[tasks[2].id] = <<>>

\* C40: every task that schedule_stop has created is in the persisted task
\* list for as long as no tick has executed it: a process that loaded the
\* list before the task was added and saves afterwards does not remove it.
C40_AsStated ==
    \A id \in 1..(nextId - 1) :
        calls[id] = <<>> => get_task(tasks, id) # 0

\* two stops were scheduled, the second while a tick that had loaded the
\* list was about to execute the first: the tick has saved its list, the
\* first task is COMPLETED and the second, never executed, is in no list
C40_Witness ==
    /\ nextId = 3
    /\ Len(tasks) = 1
    /\ tasks[1].id = 1 /\ tasks[1].status = "completed"
    /\ calls[2] = <<>>
    /\ \A p \in Procs : pc[p] = "idle"

\* C34: a well-typed JSON object in pods.json that has any of the keys
\* aliases, pod_templates, scheduled_tasks, pod_metadata is loaded as the
\* modern document it is; an object with none of them is loaded as a flat
\* alias map; so pod_metadata never becomes the name of an alias.
C34_AsStated ==
    (podsFile.kind = "object" /\ podsFile.bad = {}) =>
        LET r == _load_config(podsFile)
        IN  /\ ~r.raised
            /\ podsFile.has \cap FieldKeys # {} =>
                   r.cfg = model_validate(podsFile).cfg
            /\ podsFile.has \cap FieldKeys = {} =>
                   /\ r.cfg.aliases = podsFile.extra
                   /\ r.cfg.pod_metadata = EmptyDict
            /\ "pod_metadata" \notin DOMAIN get_all_aliases(r.cfg)

\* a command saves what it loaded from a pods.json whose only key of the
\* four was pod_metadata, holding x: the configuration it saves has an alias
\* named pod_metadata and no per-alias entry for x
C34_Witness ==
    /\ saving.pc = "open"
    /\ saving.old.kind = "object" /\ saving.old.bad = {}
    /\ saving.old.has = {"pod_metadata"}
    /\ "x" \in DOMAIN saving.old.pod_metadata
    /\ "pod_metadata" \in DOMAIN _load_config(saving.old).cfg.aliases
    /\ "pod_metadata" \in DOMAIN get_all_aliases(saving.cfg)
    /\ _load_config(saving.old).cfg.pod_metadata = EmptyDict

\* the blocks whose Host line has the alias as its first name
FirstNamed(lines, alias) ==
    {k \in 1..Len(_parse_ssh_blocks(lines)) :
        lines[_parse_ssh_blocks(lines)[k].start][2] = alias}

\* C35: whatever the file, upsert of an alias replaces the first stanza whose
\* first Host name is the alias and leaves every other line as it is; when
\* no stanza has the alias as its first Host name the rendered block is
\* appended and every line of the file stays, so that a stanza listing the
\* alias as a later name is kept.
C35_AsStated ==
    \A a \in Aliases, p \in Pods, h \in Hostnames, port \in Ports :
        LET blocks == _parse_ssh_blocks(ssh)
            r == update_ssh_config(ssh, a, p, h, port)
            blk == new_block(a, p, h, port)
        IN  IF FirstNamed(ssh, a) = {}
            THEN /\ SubSeq(r, 1, Len(ssh)) = ssh
                 /\ SubSeq(r, Len(r) - Len(blk) + 1, Len(r)) = blk
            ELSE LET t == blocks[Nth(FirstNamed(ssh, a), 1)]
                 IN  r = SubSeq(ssh, 1, t.start - 1) \o blk
                         \o SubSeq(ssh, t.end, Len(ssh))

\* after an earlier rewrite the file holds the stanza "Host y x" and no
\* stanza named x first: upsert of x puts the block of x in its place and
\* the file has no stanza for y any more
C35_Witness ==
    /\ Len(ssh) > MaxLines
    /\ FirstNamed(ssh, "x") = {}
    /\ \E b \in BlockSet(ssh) : ssh[b.start] = <<"Host", "y", "x">>
    /\ LET r == update_ssh_config(ssh, "x", "p1", "h1", "22")
       IN  /\ \A j \in 1..Len(r) : r[j] # <<"Host", "y", "x">>
           /\ Len(r) <= Len(ssh) + Len(new_block("x", "p1", "h1", "22")) - 1

\* pods.json holding the configuration cfg and, under scheduled_tasks, the
\* task list ts
WithScheduledTasks(cfg, ts) ==
    [kind |-> "object", has |-> FieldKeys, bad |-> {},
     aliases |-> cfg.aliases, pod_metadata |-> cfg.pod_metadata,
     extra |-> cfg.extra, scheduled_tasks |-> ts]

\* scheduler_tick_command on the two files: get_scheduler() loads
\* schedule.json through Scheduler.tasks, get_pod_manager() loads pods.json
\* through PodManager._load_config
TickOnFiles(schedule_json, pods_json, sshv, callsv, now, env) ==
    scheduler_tick_command(_load_tasks(schedule_json).tasks,
                           _load_config(pods_json).cfg, sshv, callsv, now, env)

\* C37: with the task list in schedule.json and one more PENDING due stop of
\* a bound alias under scheduled_tasks in pods.json, a tick that meets no
\* failure executes the due tasks of both files: the provider stop is made
\* for each of them.
C37_AsStated ==
    \A a \in DOMAIN get_all_aliases(store) :
        nextId <= MaxId =>
            LET t == [id |-> nextId, action |-> "stop", alias |-> a,
                      when_epoch |-> clock, status |-> "pending",
                      last_error |-> NoError]
                r == TickOnFiles([kind |-> "list", items |-> tasks,
                                  bad |-> FALSE],
                                 WithScheduledTasks(store, <<t>>), ssh, calls,
                                 clock,
                                 [api |-> TRUE, stopErr |-> {},
                                  sshErr |-> {}])
            IN  /\ r.calls[nextId] # <<>>
                /\ \A k \in 1..Len(tasks) :
                       (is_due(tasks[k], clock)
                        /\ tasks[k].alias \in DOMAIN get_all_aliases(store))
                       => r.calls[tasks[k].id] # <<>>

\* schedule.json holds a PENDING due stop of x and pods.json one of y: the
\* tick stops the pod of x, completes that task, and makes no call for the
\* task of pods.json, which is in no list afterwards
C37_Witness ==
    /\ nextId = 2 /\ Len(tasks) = 1
    /\ is_due(tasks[1], clock) /\ tasks[1].alias = "x"
    /\ {"x", "y"} \subseteq DOMAIN get_all_aliases(store)
    /\ calls[1] = <<>>
    /\ LET t == [id |-> 2, action |-> "stop", alias |-> "y",
                 when_epoch |-> clock, status |-> "pending",
                 last_error |-> NoError]
           r == TickOnFiles([kind |-> "list", items |-> tasks, bad |-> FALSE],
                            WithScheduledTasks(store, <<t>>), ssh, calls,
                            clock,
                            [api |-> TRUE, stopErr |-> {}, sshErr |-> {}])
       IN  /\ r.calls[1] = <<get_all_aliases(store)["x"]>>
           /\ r.disk[1].status = "completed"
           /\ r.calls[2] = <<>>
           /\ get_task(r.disk, 2) = 0

\* a text that is one or more segments of digits followed by a unit letter,
\* with nothing before, between or after them
RECURSIVE IsSegments(_)
IsSegments(t) ==
    /\ t # <<>>
    /\ t[1] \in Digits
    /\ LET j == SkipWhile(t, 1, Digits)
       IN  /\ j <= Len(t)
           /\ t[j] \in Units
           /\ (j = Len(t) \/ IsSegments(SubSeq(t, j + 1, Len(t))))

\* the sum of the segments of such a text
RECURSIVE SegmentSum(_)
SegmentSum(t) ==
    IF t = <<>> THEN 0
    ELSE LET j == SkipWhile(t, 1, Digits)
         IN  IntOf(SubSeq(t, 1, j - 1)) * Multiplier(t[j])
             + SegmentSum(SubSeq(t, j + 1, Len(t)))

\* C38: parse_duration_string returns a value exactly for the texts that are
\* a concatenation of <int><unit> segments with a positive sum, and the value
\* is that sum; every other text (empty, zero sum, or with a character
\* outside the segments) raises.
C38_AsStated ==
    duration.done =>
        /\ ~duration.raised <=>
               (IsSegments(duration.text) /\ SegmentSum(duration.text) > 0)
        /\ ~duration.raised => duration.ret = SegmentSum(duration.text)

\* the text "1sx" has been parsed: no error, 1 second
C38_Witness ==
    /\ duration.done
    /\ duration.text = <<"1", "s", "x">>
    /\ ~duration.raised
    /\ duration.ret = 1

\* an alias bound to a pod the provider still has is bound to it in t as
\* well, and when s had a managed stanza for it t has one
KeepsLivePods(t, cloud) ==
    \A a \in DOMAIN get_all_aliases(store) :
        Exists(cloud, get_all_aliases(store)[a]) =>
            /\ a \in DOMAIN get_all_aliases(t.store)
            /\ get_all_aliases(t.store)[a] = get_all_aliases(store)[a]
            /\ ManagedFor(ssh, a) # {} => ManagedFor(t.ssh, a) # {}

\* C39: whatever the provider's state and whether or not its status query
\* fails, the clean command, the clean-up after a command and the clean of
\* main.py leave every alias whose pod the provider still has bound to its
\* pod id and leave its managed SSH stanza in the file.
C39_AsStated ==
    \A cloud \in Clouds, fail \in SUBSET {"get"} :
        /\ KeepsLivePods(clean_command(World(cloud), fail).s, cloud)
        /\ KeepsLivePods(_auto_clean(World(cloud), fail), cloud)
        /\ KeepsLivePods(clean(World(cloud), fail), cloud)

\* x is bound to p1 and has its managed stanza, p1 runs at the provider and
\* the status query fails: after the clean command, and after the clean of
\* main.py, x is unbound and its stanza is gone
C39_Witness ==
    /\ tasks # <<>>
    /\ "x" \in DOMAIN get_all_aliases(store)
    /\ get_all_aliases(store)["x"] = "p1"
    /\ ManagedFor(ssh, "x") # {}
    /\ LET w == World([p \in Pods |-> "RUNNING"])
           r == clean_command(w, {"get"}).s
           l == clean(w, {"get"})
       IN  /\ "x" \notin DOMAIN get_all_aliases(r.store)
           /\ ManagedFor(r.ssh, "x") = {}
           /\ "x" \notin DOMAIN get_all_aliases(l.store)
           /\ ManagedFor(l.ssh, "x") = {}
           /\ KeepsLivePods(clean_command(w, {}).s, w.cloud)
           /\ KeepsLivePods(clean(w, {}), w.cloud)

\* C36: while upsert, remove or prune writes the SSH config, and after a
\* crash of the process at any step of the write, the file holds the
\* complete content it had before the operation or the complete new one.
C36_AsStated ==
    sshWrite.pc = "open" => (ssh = sshWrite.old \/ ssh = sshWrite.new)

\* a rewrite of a file that held the user's stanza for x is under way: the
\* file holds the first line of the new content and nothing else, and a
\* crash here leaves it so
C36_Witness ==
    /\ sshWrite.pc = "open"
    /\ \E j \in 1..Len(sshWrite.old) : sshWrite.old[j] = <<"User", "me">>
    /\ \E j \in 1..Len(sshWrite.new) : sshWrite.new[j] = <<"User", "me">>
    /\ Len(ssh) = 1
    /\ ssh[1] = sshWrite.new[1]
    /\ \A j \in 1..Len(ssh) : ssh[j] # <<"User", "me">>

\* one complete document of one writer: every unit names the same writer and
\* the same length, and that many units are there
Complete(content) ==
    /\ Len(content) >= 1
    /\ \A i \in 1..Len(content) : content[i] = content[1]
    /\ Len(content) = content[1][2]

\* C32: under every interleaving of two processes saving the same document,
\* the target file holds after each rename one complete document written by
\* one process, never an empty, truncated or mixed file.
C32_AsStated ==
    [][fs'.target # fs.target => Complete(fs'.inode[fs'.target])]_vars

\* the second process opened schedule.json.tmp after the first had closed it
\* and before the first renamed it: schedule.json is now the emptied file,
\* and the second process still holds it open
C32_Witness ==
    /\ fs.inode[fs.target] = <<>>
    /\ fs.tmp = 0
    /\ \E p \in Procs : fs.pc[p] = "idle" /\ fs.doc[p] > 0 /\ p \notin fs.raised
    /\ \E q \in Procs : fs.pc[q] = "open" /\ fs.fd[q] = fs.target

====
